---- MODULE Spec2Model ----
(***************************************************************************)
(* Model of the crypto-arbitrage aggregation core:                         *)
(*   exchange_data_repository.py  ExchangeDataRepository and the pump      *)
(*                                update_repository_from_websocket         *)
(*   *_spots.py                   the five exchange feed adapters          *)
(*                                                                         *)
(* Python values are modelled as follows.                                  *)
(*   - an optional value is a set: None is {}, a value v is {v};           *)
(*   - a dict (a snapshot) is a function from the keys it holds to         *)
(*     optional values; a missing key is a key outside its DOMAIN;         *)
(*   - a string that the code inspects (a symbol) is a sequence of         *)
(*     one-character strings;                                              *)
(*   - dict objects live in a heap and are held by reference, since the    *)
(*     repository, the adapters and the pumps share them;                  *)
(*   - a dict of exchanges keeps insertion order (a sequence of entries).  *)
(***************************************************************************)
EXTENDS Integers, Sequences, FiniteSets, TLC

VARIABLES
    heap,              \* object id -> dict, the live dict objects
    ticker_data,       \* _ticker_data: std symbol -> sequence of [ex, obj]
    last_update,       \* _last_update: std symbol -> (exchange -> timestamp)
    update_callbacks,  \* _update_callbacks: sequence of callback ids
    data_lock,         \* _data_lock: None or Some(owner thread)
    now,               \* datetime.now().timestamp(), in seconds
    pc,                \* thread -> position in its code
    frame,             \* thread -> locals of the running update_ticker call
    calls,             \* writer thread -> number of update_ticker calls it has issued
    stamped,           \* history: <<std symbol, exchange>> -> the snapshot passed to
                       \*   the writer's call that wrote the key's timestamp, and that
                       \*   timestamp
    written_mark,      \* history: <<std symbol, exchange>> -> the mark_price the
                       \*   latest update_ticker of the key stored, as it was then
    last_call,         \* history: thread -> what its latest update_ticker call did
                       \*   (for a pump: the call of its current cycle)
    arb,               \* the latest get_arbitrage_opportunities call: its arguments,
                       \*   the active exchanges it printed and the list it returned
    started,           \* the exchanges whose adapter was constructed and pump started
    conn,              \* exchange -> the connection of its adapter: where its
                       \*   connection loop is, the message received and not yet
                       \*   handled, the depth of the calls of connect(), and
                       \*   (history) the time of its latest market message
    ws_data,           \* exchange -> self.data of its adapter: None or Some(object id)
    standardized,      \* the direct calls of _standardize_symbol: the argument x,
                       \*   what the call returned (y), and what the call with y
                       \*   returned (z)
    held,              \* the API client's dict: None, or the object and where it is from
    result             \* the mapping the API client's latest read returned

\* the variables the repository's update_ticker never touches
outside == <<arb, started, standardized, conn, ws_data, held, result>>

vars == <<heap, ticker_data, last_update, update_callbacks, data_lock, now,
          pc, frame, calls, stamped, written_mark, last_call, outside>>

--------------------------------------------------------------------------
(* Bounds of the model *)

MaxObj == 6         \* dict objects alive at the same time
NWriters == 2       \* concurrent writer threads (N)
MUpdates == 2       \* update_ticker calls per writer (M)
WritersMaxTime == 2 \* clock ticks while the writers run
MaxCallbacks == 2   \* callbacks registered with the repository
Epoch == 100        \* the clock's value when the repository is constructed

(* Program constants *)

StaleAfter == 30    \* "current_time - ... < 30"

--------------------------------------------------------------------------
(* Python values *)

None == {}
Some(v) == {v}
Val(o) == CHOOSE v \in o : TRUE

EmptyDict == [k \in {} |-> None]

\* d.get(k)
DGet(d, k) == IF k \in DOMAIN d THEN d[k] ELSE None

\* d[k] = v
DSet(d, k, v) == [x \in (DOMAIN d) \cup {k} |-> IF x = k THEN v ELSE d[x]]

\* Symbols, as sequences of characters
BTC_USDT == <<"B", "T", "C", "/", "U", "S", "D", "T">>
BTC_USD == <<"B", "T", "C", "/", "U", "S", "D">>
BTCUSDT == <<"B", "T", "C", "U", "S", "D", "T">>
BTCUSD == <<"B", "T", "C", "U", "S", "D">>
BTC_DASH_USDT == <<"B", "T", "C", "-", "U", "S", "D", "T">>
btcusdt == <<"b", "t", "c", "u", "s", "d", "t">>
BTC_DASH_USD_DASH_T == <<"B", "T", "C", "-", "U", "S", "D", "-", "T">>

LowerLetters == <<"a", "b", "c", "d", "e", "f", "g", "h", "i", "j", "k", "l", "m",
                  "n", "o", "p", "q", "r", "s", "t", "u", "v", "w", "x", "y", "z">>
UpperLetters == <<"A", "B", "C", "D", "E", "F", "G", "H", "I", "J", "K", "L", "M",
                  "N", "O", "P", "Q", "R", "S", "T", "U", "V", "W", "X", "Y", "Z">>

\* str.upper()
UpperChar(c) ==
    IF \E i \in DOMAIN LowerLetters : LowerLetters[i] = c
    THEN UpperLetters[CHOOSE i \in DOMAIN LowerLetters : LowerLetters[i] = c]
    ELSE c
Upper(s) == [i \in DOMAIN s |-> UpperChar(s[i])]

\* sub in s
Contains(s, sub) ==
    \E i \in 0..(Len(s) - Len(sub)) :
        \A j \in 1..Len(sub) : s[i + j] = sub[j]

\* s.split(sep) for a one-character separator: the sequence of the parts
RECURSIVE Split(_, _)
Split(s, sep) ==
    IF \A i \in DOMAIN s : s[i] # sep
    THEN <<s>>
    ELSE LET p == CHOOSE i \in DOMAIN s :
                      s[i] = sep /\ \A j \in 1..(i - 1) : s[j] # sep
         IN <<SubSeq(s, 1, p - 1)>> \o Split(SubSeq(s, p + 1, Len(s)), sep)

\* _standardize_symbol raises ValueError: "base, quote = symbol.split('-')"
\* unpacks anything but two parts
StandardizeRaises(symbol) ==
    /\ symbol # None
    /\ LET s == Upper(Val(symbol))
       IN /\ ~Contains(s, <<"/">>)
          /\ Contains(s, <<"-">>)
          /\ Len(Split(s, "-")) # 2

\* _standardize_symbol(symbol), when it returns
Standardize(symbol) ==
    IF symbol = None
    THEN BTC_USDT
    ELSE LET s == Upper(Val(symbol))
         IN IF Contains(s, <<"/">>) THEN s
            ELSE IF Contains(s, <<"-">>)
            THEN LET parts == Split(s, "-")
                 IN parts[1] \o <<"/">> \o parts[2]
            ELSE IF s = BTCUSDT THEN BTC_USDT
            ELSE IF s = BTCUSD THEN BTC_USD
            ELSE IF Contains(s, <<"B", "T", "C">>)
                    /\ (Contains(s, <<"U", "S", "D", "T">>)
                        \/ Contains(s, <<"U", "S", "D">>))
            THEN IF Contains(s, <<"U", "S", "D", "T">>) THEN BTC_USDT ELSE BTC_USD
            ELSE s

\* The symbols the callers of the repository pass. _standardize_symbol is
\* evaluated once for each of them, and looked up from then on.
RawSymbols == {None, Some(BTC_USDT), Some(BTC_USD), Some(BTCUSDT), Some(BTCUSD),
               Some(BTC_DASH_USDT), Some(btcusdt), Some(<<>>), Some(BTC_DASH_USD_DASH_T)}
StandardizeTable ==
    [symbol \in RawSymbols |->
        IF StandardizeRaises(symbol) THEN None ELSE Some(Standardize(symbol))]
StdRaises(symbol) == StandardizeTable[symbol] = None
Std(symbol) == Val(StandardizeTable[symbol])

--------------------------------------------------------------------------
(* The repository's dicts *)

\* the entry of exchange ex in an insertion-ordered dict (a sequence of
\* [ex, obj] records): exchanges.get(ex), None or Some(object id)
ExGet(exs, ex) ==
    IF \E i \in DOMAIN exs : exs[i].ex = ex
    THEN Some(exs[CHOOSE i \in DOMAIN exs : exs[i].ex = ex].obj)
    ELSE None

\* an assignment that adds an entry also when the key has one
ExPutAppend(exs, ex, obj) == Append(exs, [ex |-> ex, obj |-> obj])

\* exchanges[ex] = obj: an existing key keeps its position, a new key is
\* appended
ExPut(exs, ex, obj) ==
    IF \E i \in DOMAIN exs : exs[i].ex = ex
    THEN [i \in DOMAIN exs |-> IF exs[i].ex = ex THEN [ex |-> ex, obj |-> obj] ELSE exs[i]]
    ELSE Append(exs, [ex |-> ex, obj |-> obj])

\* self._ticker_data[std]: a defaultdict(dict) read creates the key
TickerOf(td, std) == IF std \in DOMAIN td THEN td[std] ELSE <<>>
TouchTicker(td, std) ==
    [s \in (DOMAIN td) \cup {std} |-> IF s \in DOMAIN td THEN td[s] ELSE <<>>]

\* "std_symbol not in self._ticker_data", and self._ticker_data[std_symbol]
\* after that test: the reads create no key
AfterReadTouch(td, std) == TouchTicker(td, std)
AfterRead(td, std) == td

\* self._last_update[std][ex] = ts, on a defaultdict(dict)
StampPut(lu, std, ex, ts) ==
    LET old == IF std \in DOMAIN lu THEN lu[std] ELSE EmptyDict
    IN [s \in (DOMAIN lu) \cup {std} |->
          IF s = std
          THEN [e \in (DOMAIN old) \cup {ex} |-> IF e = ex THEN ts ELSE old[e]]
          ELSE lu[s]]

--------------------------------------------------------------------------
(* Threads *)

\* default_symbols: the exchanges, in the order of the dict
ExchangeNames == <<"BYBIT-spot", "KRAKEN-spot", "HUOBI-spot", "OKX-spot", "BITFINEX-spot">>
Exchanges == {ExchangeNames[i] : i \in DOMAIN ExchangeNames}

\* thread ids: the writers are 1..N, the API client is 0 and the pump thread
\* of the i-th exchange is -i
Writers == 1..NWriters
Client == 0
Pumps == {-i : i \in DOMAIN ExchangeNames}
Threads == Writers \cup {Client} \cup Pumps
ExchangeOf(p) == ExchangeNames[-p]
PumpOf(e) == CHOOSE p \in Pumps : ExchangeOf(p) = e

\* where a thread continues when its update_ticker call returns: a pump at
\* "connection_attempts += 1; time.sleep(0.1)"
RetPc(t) == IF t \in Pumps THEN "sleep" ELSE "idle"

\* where a thread continues when its update_ticker call raises: a pump at
\* its "except Exception", which backs off
Uncaught(t) == "ended"
ExcPc(t) == IF t \in Pumps THEN "backoff" ELSE "idle"

NoFrame == [symbol |-> None, exchange |-> "", data |-> None, std |-> None,
            prev |-> None, cb |-> 0]

\* no direct call of _standardize_symbol was made
NotStandardized == [x |-> None, y |-> None, z |-> None, raised |-> FALSE, calls |-> 0]

\* the connection of an adapter that was not constructed, and the one of a
\* running adapter: its loop waits for the next message
NoConnection == [st |-> "none", rx |-> None, depth |-> 0, heard |-> None]
Connected == [st |-> "connected", rx |-> None, depth |-> 0, heard |-> None]

\* the handler of adapter e has taken the market message that was received;
\* heard is history: the time of the adapter's latest market message
Consumed(e) == [conn EXCEPT ![e].rx = None, ![e].heard = Some(now)]

--------------------------------------------------------------------------
(* The heap: dict objects are kept while something refers to them *)

FrameRoots == UNION {frame[t].data \cup frame[t].prev : t \in Threads}
RepoRoots == UNION {{ticker_data[s][i].obj : i \in DOMAIN ticker_data[s]} :
                     s \in DOMAIN ticker_data}
AdapterRoots == UNION {ws_data[e] : e \in Exchanges}
MappingRoots(m) == UNION {{m[s][i].obj : i \in DOMAIN m[s]} : s \in DOMAIN m}
ClientRoots == {h.obj : h \in held} \cup MappingRoots(result)
Roots == FrameRoots \cup RepoRoots \cup AdapterRoots \cup ClientRoots

\* reference counting frees a dict when the last reference to it goes
Collect(h, roots) == [o \in (DOMAIN h) \cap roots |-> h[o]]

HeapFull(h) == DOMAIN h = 1..MaxObj
NewObj(h) == CHOOSE o \in 1..MaxObj :
                 o \notin DOMAIN h /\ \A p \in 1..(o - 1) : p \in DOMAIN h
HeapPut(h, o, d) == [x \in (DOMAIN h) \cup {o} |-> IF x = o THEN d ELSE h[x]]

--------------------------------------------------------------------------
(* ExchangeDataRepository.__init__ *)

RepoInit ==
    /\ heap = EmptyDict
    /\ ticker_data = EmptyDict
    /\ last_update = EmptyDict
    /\ update_callbacks = <<>>
    /\ data_lock = None
    /\ now = Epoch

NoCall == [std |-> None, exchange |-> "", mark |-> None, had_prev |-> FALSE,
           prev_mark |-> None, registered |-> <<>>, invoked |-> <<>>,
           raised |-> FALSE, returned |-> FALSE]

HistoryInit ==
    /\ stamped = EmptyDict
    /\ written_mark = EmptyDict
    /\ last_call = [t \in Threads |-> NoCall]

ThreadsInit ==
    /\ pc = [t \in Threads |-> "idle"]
    /\ frame = [t \in Threads |-> NoFrame]
    /\ calls = [t \in Threads |-> 0]

\* no adapter is constructed, no API client holds anything
NoSystem ==
    /\ arb = None
    /\ started = {}
    /\ standardized = NotStandardized
    /\ conn = [e \in Exchanges |-> NoConnection]
    /\ ws_data = [e \in Exchanges |-> None]
    /\ held = None
    /\ result = EmptyDict

--------------------------------------------------------------------------
(* ExchangeDataRepository.register_update_callback *)

\* self._update_callbacks.append(callback); the callbacks are told apart by
\* the order of their registration
Register ==
    /\ Len(update_callbacks) < MaxCallbacks
    /\ update_callbacks' = Append(update_callbacks, Len(update_callbacks) + 1)
    /\ UNCHANGED <<heap, ticker_data, last_update, data_lock, now, pc, frame,
                   calls, stamped, written_mark, last_call, outside>>

--------------------------------------------------------------------------
(* ExchangeDataRepository.update_ticker, statement by statement *)

\* "with self._data_lock": an RLock is free for its owner too
LockFreeNoLock(t) == TRUE
LockFree(t) == data_lock = None \/ data_lock = Some(t)

\* the call is left: by return (the with block releases the lock) or by an
\* exception, and the thread goes on at label
Leave(t, label) ==
    /\ pc' = [pc EXCEPT ![t] = label]
    /\ frame' = [frame EXCEPT ![t] = NoFrame]

\* the call is entered with its three arguments;
\* std_symbol = self._standardize_symbol(symbol) returns or raises
EnterUpdate(t, symbol, exchange, obj) ==
    /\ IF StdRaises(symbol)
       THEN /\ Leave(t, ExcPc(t))
            /\ last_call' = [last_call EXCEPT ![t] = [NoCall EXCEPT !.raised = TRUE]]
       ELSE /\ pc' = [pc EXCEPT ![t] = "ut_acquire"]
            /\ frame' = [frame EXCEPT ![t] = [NoFrame EXCEPT
                                                 !.symbol = symbol,
                                                 !.exchange = exchange,
                                                 !.data = Some(obj),
                                                 !.std = Some(Std(symbol))]]
            /\ last_call' = [last_call EXCEPT ![t] = [NoCall EXCEPT
                                                 !.std = Some(Std(symbol)),
                                                 !.exchange = exchange]]

\* with self._data_lock:
UtAcquire(t) ==
    /\ pc[t] = "ut_acquire"
    /\ LockFree(t)
    /\ data_lock' = Some(t)
    /\ pc' = [pc EXCEPT ![t] = "ut_prev"]
    /\ UNCHANGED <<heap, ticker_data, last_update, update_callbacks, now, frame,
                   calls, stamped, written_mark, last_call, outside>>

\* prev_data = self._ticker_data[std_symbol].get(exchange)
UtPrev(t) ==
    /\ pc[t] = "ut_prev"
    /\ LET std == Val(frame[t].std)
           prev == ExGet(TickerOf(ticker_data, std), frame[t].exchange)
       IN /\ ticker_data' = TouchTicker(ticker_data, std)
          /\ frame' = [frame EXCEPT ![t].prev = prev]
          /\ last_call' = [last_call EXCEPT
                ![t].had_prev = (prev # None),
                ![t].prev_mark = IF <<std, frame[t].exchange>> \in DOMAIN written_mark
                                 THEN written_mark[<<std, frame[t].exchange>>]
                                 ELSE None]
    /\ pc' = [pc EXCEPT ![t] = "ut_setsym"]
    /\ UNCHANGED <<heap, last_update, update_callbacks, data_lock, now, calls,
                   stamped, written_mark, outside>>

\* ticker_data['symbol'] = std_symbol
UtSetSym(t) ==
    /\ pc[t] = "ut_setsym"
    /\ LET o == Val(frame[t].data)
       IN heap' = HeapPut(heap, o, DSet(heap[o], "symbol", frame[t].std))
    /\ pc' = [pc EXCEPT ![t] = "ut_store"]
    /\ UNCHANGED <<ticker_data, last_update, update_callbacks, data_lock, now,
                   frame, calls, stamped, written_mark, last_call, outside>>

\* a store that keeps the entry a key already has
UtStoreKeepFirst(t) ==
    /\ pc[t] = "ut_store"
    /\ LET std == Val(frame[t].std)
           mark == DGet(heap[Val(frame[t].data)], "mark_price")
           exs == TickerOf(ticker_data, std)
       IN /\ ticker_data' = [TouchTicker(ticker_data, std) EXCEPT
                                ![std] = IF ExGet(exs, frame[t].exchange) = None
                                         THEN ExPut(@, frame[t].exchange, Val(frame[t].data))
                                         ELSE @]
          /\ written_mark' = DSet(written_mark, <<std, frame[t].exchange>>, mark)
          /\ last_call' = [last_call EXCEPT ![t].mark = mark]
    /\ pc' = [pc EXCEPT ![t] = "ut_stamp"]
    /\ UNCHANGED <<last_update, update_callbacks, data_lock, now, frame, calls,
                   stamped, outside>>
    /\ heap' = Collect(heap, Roots')

\* self._ticker_data[std_symbol][exchange] = ticker_data
UtStore(t) ==
    /\ pc[t] = "ut_store"
    /\ LET std == Val(frame[t].std)
           mark == DGet(heap[Val(frame[t].data)], "mark_price")
       IN /\ ticker_data' = [TouchTicker(ticker_data, std) EXCEPT
                                ![std] = ExPut(@, frame[t].exchange, Val(frame[t].data))]
          /\ written_mark' = DSet(written_mark, <<std, frame[t].exchange>>, mark)
          /\ last_call' = [last_call EXCEPT ![t].mark = mark]
    /\ pc' = [pc EXCEPT ![t] = "ut_stamp"]
    /\ UNCHANGED <<last_update, update_callbacks, data_lock, now, frame, calls,
                   stamped, outside>>
    /\ heap' = Collect(heap, Roots')

\* self._last_update[std_symbol][exchange] = datetime.now().timestamp()
UtStamp(t) ==
    /\ pc[t] = "ut_stamp"
    /\ last_update' = StampPut(last_update, Val(frame[t].std), frame[t].exchange, now)
    /\ stamped' = IF t \in Writers
                  THEN DSet(stamped, <<Val(frame[t].std), frame[t].exchange>>,
                            [snap |-> heap[Val(frame[t].data)], ts |-> now])
                  ELSE stamped
    /\ pc' = [pc EXCEPT ![t] = "ut_check"]
    /\ UNCHANGED <<heap, ticker_data, update_callbacks, data_lock, now, frame,
                   calls, written_mark, last_call, outside>>

\* if prev_data is None or prev_data.get('mark_price') != ticker_data.get('mark_price')
PriceChanged(prev, new) ==
    \/ prev = None
    \/ DGet(heap[Val(prev)], "mark_price") # DGet(heap[Val(new)], "mark_price")

\* the if statement; with nothing to call, the with block ends and the call
\* returns
UtCheck(t) ==
    /\ pc[t] = "ut_check"
    /\ IF PriceChanged(frame[t].prev, frame[t].data) /\ update_callbacks # <<>>
       THEN /\ frame' = [frame EXCEPT ![t].cb = 1]
            /\ pc' = [pc EXCEPT ![t] = "ut_notify"]
            /\ last_call' = [last_call EXCEPT ![t].registered = update_callbacks]
            /\ UNCHANGED data_lock
       ELSE /\ Leave(t, RetPc(t))
            /\ data_lock' = None
            /\ last_call' = [last_call EXCEPT ![t].registered = update_callbacks,
                                              ![t].returned = TRUE]
    /\ UNCHANGED <<ticker_data, last_update, update_callbacks, now, calls,
                   stamped, written_mark, outside>>
    /\ heap' = Collect(heap, Roots')

\* for callback in self._update_callbacks: callback(std_symbol, exchange,
\* ticker_data). The callback returns or raises; an exception leaves the with
\* block (the lock is released) and the call.
UtNotify(t, raises) ==
    /\ pc[t] = "ut_notify"
    /\ LET i == frame[t].cb
           invoked == Append(last_call[t].invoked,
                             [callback |-> update_callbacks[i],
                              symbol |-> Val(frame[t].std),
                              exchange |-> frame[t].exchange,
                              ticker_data |-> Val(frame[t].data)])
       IN IF raises
          THEN /\ Leave(t, ExcPc(t))
               /\ data_lock' = None
               /\ last_call' = [last_call EXCEPT ![t].invoked = invoked,
                                                 ![t].raised = TRUE]
          ELSE IF i < Len(update_callbacks)
          THEN /\ frame' = [frame EXCEPT ![t].cb = i + 1]
               /\ last_call' = [last_call EXCEPT ![t].invoked = invoked]
               /\ UNCHANGED <<pc, data_lock>>
          ELSE /\ Leave(t, RetPc(t))
               /\ data_lock' = None
               /\ last_call' = [last_call EXCEPT ![t].invoked = invoked,
                                                 ![t].returned = TRUE]
    /\ UNCHANGED <<ticker_data, last_update, update_callbacks, now, calls,
                   stamped, written_mark, outside>>
    /\ heap' = Collect(heap, Roots')

UpdateTickerStep(t) ==
    \/ UtAcquire(t)
    \/ UtPrev(t)
    \/ UtSetSym(t)
    \/ UtStore(t)
    \/ UtStamp(t)
    \/ UtCheck(t)
    \/ \E raises \in BOOLEAN : UtNotify(t, raises)

--------------------------------------------------------------------------
(* The clock *)

\* the clock moves on to a later value among times
Tick(times) ==
    /\ \E t \in times : t > now /\ now' = t
    /\ UNCHANGED <<heap, ticker_data, last_update, update_callbacks, data_lock,
                   pc, frame, calls, stamped, written_mark, last_call, outside>>

--------------------------------------------------------------------------
(* N concurrent writers, each issuing M update_ticker calls to one key *)

WriterExchange == "X"

\* the writers spell the one symbol in the ways the exchanges do
WriterSymbol(w) ==
    CASE w % 3 = 1 -> Some(BTCUSDT)
      [] w % 3 = 2 -> Some(BTC_DASH_USDT)
      [] OTHER -> None

\* a writer builds a snapshot of its own, different from every other one,
\* and passes it to update_ticker
WriterCall(w) ==
    /\ pc[w] = "idle"
    /\ calls[w] < MUpdates
    /\ ~HeapFull(heap)
    /\ LET o == NewObj(heap)
           d == [k \in {"mark_price", "bid_price", "ask_price", "volume_24h"} |->
                    CASE k = "mark_price" -> Some(w)
                      [] k = "bid_price" -> Some(calls[w] + 1)
                      [] k = "ask_price" -> Some(calls[w] + 2)
                      [] OTHER -> None]
       IN /\ EnterUpdate(w, WriterSymbol(w), WriterExchange, o)
          /\ calls' = [calls EXCEPT ![w] = @ + 1]
          /\ UNCHANGED <<ticker_data, last_update, update_callbacks, data_lock, now,
                         stamped, written_mark, outside>>
          /\ heap' = Collect(HeapPut(heap, o, d), Roots')

\* the writers run on a repository with no callback registered
WriterStep(w) ==
    \/ UtAcquire(w)
    \/ UtPrev(w)
    \/ UtSetSym(w)
    \/ UtStore(w)
    \/ UtStamp(w)
    \/ UtCheck(w)

InitWriters ==
    /\ RepoInit
    /\ ThreadsInit
    /\ HistoryInit
    /\ NoSystem

NextWriters ==
    \/ Tick(Epoch..(Epoch + WritersMaxTime))
    \/ \E w \in Writers : WriterCall(w)
    \/ \E w \in Writers : WriterStep(w)

SpecWriters == InitWriters /\ [][NextWriters]_vars

--------------------------------------------------------------------------
(* C1 *)

WritersDone == \A w \in Writers : calls[w] = MUpdates /\ pc[w] = "idle"

\* the entries stored under the writers' key
WriterEntries ==
    LET exs == TickerOf(ticker_data, BTC_USDT)
    IN {i \in DOMAIN exs : exs[i].ex = WriterExchange}

\* C1: when N concurrent writers have each completed M update_ticker calls to
\* the same (standardized symbol, exchange) key, the repository holds exactly
\* one entry for the key, and the entry's snapshot together with its timestamp
\* is the pair of one single write (stamped: the snapshot passed to the call
\* that wrote the timestamp, and that timestamp): no torn mix.
C1_Atomicity ==
    WritersDone =>
        /\ Cardinality(WriterEntries) = 1
        /\ \E i \in WriterEntries :
              LET w == stamped[<<BTC_USDT, WriterExchange>>]
              IN /\ heap[ticker_data[BTC_USDT][i].obj] = w.snap
                 /\ last_update[BTC_USDT][WriterExchange] = w.ts

\* all N*M writes have completed, the last one after the clock has moved,
\* and it is not the last writer's
C1_Witness ==
    /\ WritersDone
    /\ Cardinality(WriterEntries) = 1
    /\ last_update[BTC_USDT][WriterExchange] > Epoch
    /\ stamped[<<BTC_USDT, WriterExchange>>].snap["mark_price"] = Some(1)

--------------------------------------------------------------------------
(* ExchangeDataRepository.get_arbitrage_opportunities *)

\* Numbers that need not be whole (profit_percent, min_profit_percent) are
\* fractions num/den with den # 0, compared exactly
Frac(n, d) == [num |-> n, den |-> d]
Sign(x) == IF x < 0 THEN -1 ELSE 1
FracGe(a, b) ==
    a.num * b.den * Sign(a.den) * Sign(b.den) >= b.num * a.den * Sign(a.den) * Sign(b.den)
FracGt(a, b) == ~FracGe(b, a)

\* profit_percent = (sell_price - buy_price) / buy_price * 100
ProfitPercent(buy_price, sell_price) == Frac((sell_price - buy_price) * 100, buy_price)

\* profit_percent >= min_profit_percent
QualifiesAbove(profit_percent, min_profit_percent) ==
    FracGt(profit_percent, min_profit_percent)
Qualifies(profit_percent, min_profit_percent) ==
    FracGe(profit_percent, min_profit_percent)

\* price is None or price == 0
NoneOnly(price) == price = None
NoneOrZero(price) == price = None \/ price = Some(0)

\* self._last_update[std_symbol].get(ex, 0)
LastUpdateGet(std, ex) ==
    IF std \in DOMAIN last_update /\ ex \in DOMAIN last_update[std]
    THEN last_update[std][ex]
    ELSE 0

\* current_time - self._last_update[std_symbol].get(ex, 0) < 30
IsActiveOff(std, ex, current_time) == current_time - LastUpdateGet(std, ex) <= StaleAfter
IsActive(std, ex, current_time) == current_time - LastUpdateGet(std, ex) < StaleAfter

\* active_exchanges: the dict comprehension keeps the insertion order
ActiveExchanges(std, current_time) ==
    SelectSeq(ticker_data[std], LAMBDA e : IsActive(std, e.ex, current_time))

\* the body of "for j in range(len(exchange_list))", from j on
RECURSIVE SellLoop(_, _, _, _, _)
SellLoop(active, std, i, j, min_profit_percent) ==
    IF j > Len(active)
    THEN <<>>
    ELSE LET rest == SellLoop(active, std, i, j + 1, min_profit_percent)
             buy_price == DGet(heap[active[i].obj], "ask_price")
             sell_price == DGet(heap[active[j].obj], "bid_price")
         IN IF i = j THEN rest
            ELSE IF NoneOrZero(sell_price) THEN rest
            ELSE LET profit_percent == ProfitPercent(Val(buy_price), Val(sell_price))
                 IN IF Qualifies(profit_percent, min_profit_percent)
                    THEN <<[symbol |-> std,
                            buy_exchange |-> active[i].ex,
                            buy_price |-> Val(buy_price),
                            sell_exchange |-> active[j].ex,
                            sell_price |-> Val(sell_price),
                            profit_percent |-> profit_percent]>> \o rest
                    ELSE rest

\* the body of "for i in range(len(exchange_list))", from i on
RECURSIVE BuyLoop(_, _, _, _)
BuyLoop(active, std, i, min_profit_percent) ==
    IF i > Len(active)
    THEN <<>>
    ELSE LET rest == BuyLoop(active, std, i + 1, min_profit_percent)
         IN IF NoneOrZero(DGet(heap[active[i].obj], "ask_price"))
            THEN rest
            ELSE SellLoop(active, std, i, 1, min_profit_percent) \o rest

\* opportunities.sort(key=lambda x: x['profit_percent'], reverse=True):
\* list.sort is stable, also with reverse=True. x, which came before every
\* element of the sorted list s, goes before the first one that is not
\* greater.
RECURSIVE InsertDesc(_, _)
InsertDescUnstable(x, s) ==
    IF s = <<>> THEN <<x>>
    ELSE IF FracGt(x.profit_percent, Head(s).profit_percent)
    THEN <<x>> \o s
    ELSE <<Head(s)>> \o InsertDesc(x, Tail(s))
InsertDesc(x, s) ==
    IF s = <<>> THEN <<x>>
    ELSE IF FracGe(x.profit_percent, Head(s).profit_percent)
    THEN <<x>> \o s
    ELSE <<Head(s)>> \o InsertDesc(x, Tail(s))

RECURSIVE SortDesc(_)
SortDesc(s) == IF s = <<>> THEN <<>> ELSE InsertDesc(Head(s), SortDesc(Tail(s)))

\* the call as a whole, under the lock: what it prints (active_exchanges) and
\* what it returns. A symbol that _standardize_symbol rejects raises.
GetArbitrageOpportunities(symbol, min_profit_percent) ==
    IF StdRaises(symbol)
    THEN [raised |-> TRUE, std |-> None, active |-> <<>>, found |-> <<>>,
          opportunities |-> <<>>]
    ELSE LET std == Std(symbol)
         IN IF std \notin DOMAIN ticker_data
            THEN [raised |-> FALSE, std |-> Some(std), active |-> <<>>, found |-> <<>>,
                  opportunities |-> <<>>]
            ELSE LET active == ActiveExchanges(std, now)
                     found == BuyLoop(active, std, 1, min_profit_percent)
                 IN [raised |-> FALSE, std |-> Some(std), active |-> active,
                     found |-> found, opportunities |-> SortDesc(found)]

\* a thread calls get_arbitrage_opportunities(symbol, min_profit_percent)
GetArb(symbol, min_profit_percent) ==
    /\ data_lock = None
    /\ arb' = Some([symbol |-> symbol, min_profit_percent |-> min_profit_percent,
                    at |-> now,
                    ret |-> GetArbitrageOpportunities(symbol, min_profit_percent)])
    /\ ticker_data' = IF StdRaises(symbol) THEN ticker_data
                      ELSE AfterRead(ticker_data, Std(symbol))
    /\ UNCHANGED <<heap, last_update, update_callbacks, data_lock, now,
                   pc, frame, calls, stamped, written_mark, last_call, started, standardized, conn,
                   ws_data, held, result>>

--------------------------------------------------------------------------
(* update_ticker as one step: the call of a thread that no other thread's
   step comes between, which the lock allows for (C1) *)

\* lines 40-45: the entry and its timestamp after the call
StoredTicker(td, std, exchange, obj) ==
    [TouchTicker(td, std) EXCEPT ![std] = ExPut(@, exchange, obj)]

\* the caller builds the dict d and passes it; no callback is registered.
\* The dict takes the place in the heap of the one it replaces, which is
\* freed by the call.
UpdateTickerCall(symbol, exchange, d) ==
    /\ data_lock = None
    /\ update_callbacks = <<>>
    /\ ~StdRaises(symbol)
    /\ LET std == Std(symbol)
           prev == ExGet(TickerOf(ticker_data, std), exchange)
       IN /\ prev = None => ~HeapFull(heap)
          /\ LET o == IF prev = None THEN NewObj(heap) ELSE Val(prev)
             IN /\ ticker_data' = StoredTicker(ticker_data, std, exchange, o)
                /\ last_update' = StampPut(last_update, std, exchange, now)
                /\ written_mark' = DSet(written_mark, <<std, exchange>>,
                                        DGet(d, "mark_price"))
                /\ heap' = HeapPut(heap, o, DSet(d, "symbol", Some(std)))
    /\ UNCHANGED <<update_callbacks, data_lock, now, pc, frame, calls, stamped,
                   last_call>>

--------------------------------------------------------------------------
(* The arbitrage detector over the repository's states *)

ArbExchanges == {"BYBIT-spot", "HUOBI-spot", "OKX-spot"}

\* (ask_price, bid_price) of the snapshots written: None, 0 and prices that
\* give equal and different profits
Quote(ask, bid) == [ask |-> ask, bid |-> bid]
QuotesWide == {Quote(None, Some(2)), Quote(Some(0), Some(4)), Quote(Some(1), None),
               Quote(Some(2), Some(0)), Quote(Some(1), Some(2)), Quote(Some(2), Some(4))}
QuotesFew == {Quote(Some(1), Some(2)), Quote(Some(0), Some(4))}

\* clock values: two, a staleness threshold apart; or the ones around the
\* threshold
TimesCoarse == {Epoch, Epoch + StaleAfter}
TimesFine == {Epoch, Epoch + 1, Epoch + StaleAfter - 1, Epoch + StaleAfter,
              Epoch + StaleAfter + 1}

ArbSymbols == {Some(BTCUSDT), Some(BTC_USD)}
ArbThresholds == {Frac(1, 2), Frac(100, 1)}

\* the next call is made when the detector's caller has taken the list
ArbUpdate(quotes) ==
    \E ex \in ArbExchanges, q \in quotes :
        /\ arb = None
        /\ UpdateTickerCall(Some(BTCUSDT), ex,
               [k \in {"mark_price", "bid_price", "ask_price", "volume_24h"} |->
                   CASE k = "bid_price" -> q.bid
                     [] k = "ask_price" -> q.ask
                     [] k = "mark_price" -> q.bid
                     [] OTHER -> None])
        /\ UNCHANGED outside

ArbTick(times) ==
    /\ arb = None
    /\ Tick(times)

ArbCall ==
    \E symbol \in ArbSymbols, min_profit_percent \in ArbThresholds :
        /\ arb = None
        /\ GetArb(symbol, min_profit_percent)

\* the caller has used the list
ArbReturn ==
    /\ arb # None
    /\ arb' = None
    /\ UNCHANGED <<heap, ticker_data, last_update, update_callbacks, data_lock, now,
                   pc, frame, calls, stamped, written_mark, last_call, started, standardized, conn,
                   ws_data, held, result>>

InitArb ==
    /\ RepoInit
    /\ ThreadsInit
    /\ HistoryInit
    /\ NoSystem

NextArb ==
    \/ ArbUpdate(QuotesWide)
    \/ ArbTick(TimesCoarse)
    \/ ArbCall
    \/ ArbReturn

SpecArb == InitArb /\ [][NextArb]_vars

NextStale ==
    \/ ArbUpdate(QuotesFew)
    \/ ArbTick(TimesFine)
    \/ ArbCall
    \/ ArbReturn

SpecStale == InitArb /\ [][NextStale]_vars

--------------------------------------------------------------------------
(* C2 - C5: a call of get_arbitrage_opportunities has returned and the
   repository is as the call saw it *)

ArbReturned == arb # None /\ ~Val(arb).ret.raised
ArbStd == Val(Val(arb).ret.std)
ArbActive == Val(arb).ret.active
ArbOpps == Val(arb).ret.opportunities
ArbMin == Val(arb).min_profit_percent

\* the exchanges that have an entry under the symbol of the call
ArbStored ==
    IF ArbStd \in DOMAIN ticker_data
    THEN {ticker_data[ArbStd][i].ex : i \in DOMAIN ticker_data[ArbStd]}
    ELSE {}
EntryOf(std, ex) == heap[Val(ExGet(ticker_data[std], ex))]
Age(std, ex) == now - last_update[std][ex]
Fresh == {ex \in ArbStored : Age(ArbStd, ex) < StaleAfter}

ProfitAtLeast(ask, bid, m) ==
    IF ask * m.den > 0
    THEN (bid - ask) * 100 * m.den >= m.num * ask
    ELSE (bid - ask) * 100 * m.den <= m.num * ask

\* the ordered pairs (buy, sell) that qualify
Qualifying ==
    {p \in Fresh \X Fresh :
        /\ p[1] # p[2]
        /\ LET ask == DGet(EntryOf(ArbStd, p[1]), "ask_price")
               bid == DGet(EntryOf(ArbStd, p[2]), "bid_price")
           IN /\ ask # None /\ ask # Some(0)
              /\ bid # None /\ bid # Some(0)
              /\ ProfitAtLeast(Val(ask), Val(bid), ArbMin)}

C3_WitnessUnknown ==
    /\ ArbReturned
    /\ ticker_data # EmptyDict
    /\ ArbStd \notin DOMAIN ticker_data
    /\ ArbOpps = <<>>

\* C4: no reported opportunity has a buy exchange whose ask_price is None or
\* 0, nor a sell exchange whose bid_price is None or 0; the call does not
\* raise on such entries, and the pairs of the other exchanges are reported
\* all the same.
C4_ZeroNoneGuard ==
    arb # None =>
        /\ ~Val(arb).ret.raised
        /\ \A k \in DOMAIN ArbOpps :
              /\ DGet(EntryOf(ArbStd, ArbOpps[k].buy_exchange), "ask_price")
                    \notin {None, Some(0)}
              /\ DGet(EntryOf(ArbStd, ArbOpps[k].sell_exchange), "bid_price")
                    \notin {None, Some(0)}
        /\ \A p \in Qualifying :
              \E k \in DOMAIN ArbOpps :
                  p = <<ArbOpps[k].buy_exchange, ArbOpps[k].sell_exchange>>

\* a call over an active entry with ask 0 and one with bid None that still
\* reports a pair
C4_Witness ==
    /\ ArbReturned
    /\ \E ex \in Fresh : DGet(EntryOf(ArbStd, ex), "ask_price") = Some(0)
    /\ \E ex \in Fresh : DGet(EntryOf(ArbStd, ex), "bid_price") = None
    /\ ArbOpps # <<>>

\* position of an exchange in the list the double loop runs over
ActivePos(ex) == CHOOSE k \in DOMAIN ArbActive : ArbActive[k].ex = ex

\* a.profit_percent > b.profit_percent, and the same with =
ProfitGreater(a, b) ==
    LET l == a.profit_percent.num * b.profit_percent.den
                * Sign(a.profit_percent.den) * Sign(b.profit_percent.den)
        r == b.profit_percent.num * a.profit_percent.den
                * Sign(a.profit_percent.den) * Sign(b.profit_percent.den)
    IN l > r
ProfitEqual(a, b) ==
    a.profit_percent.num * b.profit_percent.den = b.profit_percent.num * a.profit_percent.den

\* a is met before b by "for i ...: for j ...:"
MetBefore(a, b) ==
    \/ ActivePos(a.buy_exchange) < ActivePos(b.buy_exchange)
    \/ /\ ActivePos(a.buy_exchange) = ActivePos(b.buy_exchange)
       /\ ActivePos(a.sell_exchange) < ActivePos(b.sell_exchange)

\* C5: the returned list is sorted by profit_percent, highest first, and
\* opportunities of equal profit_percent are in the order in which the
\* (buy index, sell index) double loop over the active exchanges met them.
C5_Ordering ==
    ArbReturned =>
        \A k, l \in DOMAIN ArbOpps :
            k < l =>
                \/ ProfitGreater(ArbOpps[k], ArbOpps[l])
                \/ /\ ProfitEqual(ArbOpps[k], ArbOpps[l])
                   /\ MetBefore(ArbOpps[k], ArbOpps[l])

\* a list with two opportunities of equal profit and a third of higher
\* profit that the loop met after them
C5_Witness ==
    /\ ArbReturned
    /\ \E k, l \in DOMAIN ArbOpps : k < l /\ ProfitEqual(ArbOpps[k], ArbOpps[l])
    /\ \E k, l \in DOMAIN ArbOpps :
          /\ k < l
          /\ ProfitGreater(ArbOpps[k], ArbOpps[l])
          /\ MetBefore(ArbOpps[l], ArbOpps[k])

--------------------------------------------------------------------------
(* A client of the repository's API: one thread that registers callbacks,
   builds dicts, passes them to update_ticker, reads, and changes the dicts
   and mappings it holds *)

\* two spellings of the one key the client writes, and a symbol it only reads
ApiSymbols == {Some(BTCUSDT), Some(BTC_DASH_USDT)}
ApiReadSymbols == ApiSymbols \cup {Some(BTC_USD)}
ApiExchanges == {"X"}
ApiMarks == {1, 2}
ApiFields == {"mark_price"}
ApiTimes == {Epoch, Epoch + 1}

ClientIdle == pc[Client] = "idle"

\* repo.register_update_callback(cb)
ClientRegister ==
    /\ ClientIdle
    /\ Register

\* d = {'mark_price': m, 'bid_price': 1, 'ask_price': 2, 'volume_24h': None}
ClientBuild(m) ==
    /\ ClientIdle
    /\ ~HeapFull(heap)
    /\ LET o == NewObj(heap)
           d == [k \in {"mark_price", "bid_price", "ask_price", "volume_24h"} |->
                    CASE k = "mark_price" -> Some(m)
                      [] k = "bid_price" -> Some(1)
                      [] k = "ask_price" -> Some(2)
                      [] OTHER -> None]
       IN /\ held' = Some([obj |-> o, from |-> "built"])
          /\ UNCHANGED <<ticker_data, last_update, update_callbacks, data_lock, now,
                         pc, frame, calls, stamped, written_mark, last_call, arb,
                         started, standardized, conn, ws_data, result>>
          /\ heap' = Collect(HeapPut(heap, o, d), Roots')

\* d[field] = v, on the dict the client holds
ClientSet(field, v) ==
    /\ ClientIdle
    /\ held # None
    /\ heap[Val(held).obj][field] # Some(v)
    /\ heap' = HeapPut(heap, Val(held).obj, DSet(heap[Val(held).obj], field, Some(v)))
    /\ UNCHANGED <<ticker_data, last_update, update_callbacks, data_lock, now, pc,
                   frame, calls, stamped, written_mark, last_call, outside>>

\* repo.update_ticker(symbol, exchange, d)
ClientUpdate(symbol, exchange) ==
    /\ ClientIdle
    /\ held # None
    /\ EnterUpdate(Client, symbol, exchange, Val(held).obj)
    /\ UNCHANGED <<heap, ticker_data, last_update, update_callbacks, data_lock, now,
                   calls, stamped, written_mark, outside>>

\* get_ticker(symbol, exchange): None for an unknown symbol, else
\* self._ticker_data[std_symbol].get(exchange), the stored dict itself
GetTicker(symbol, exchange) ==
    IF Std(symbol) \notin DOMAIN ticker_data
    THEN None
    ELSE ExGet(ticker_data[Std(symbol)], exchange)

\* d = repo.get_ticker(symbol, exchange)
ClientGetTicker(symbol, exchange) ==
    /\ ClientIdle
    /\ LockFree(Client)
    /\ LET r == GetTicker(symbol, exchange)
       IN held' = IF r = None THEN None
                  ELSE Some([obj |-> Val(r), from |-> "get_ticker"])
    /\ ticker_data' = AfterRead(ticker_data, Std(symbol))
    /\ UNCHANGED <<last_update, update_callbacks, data_lock, now, pc,
                   frame, calls, stamped, written_mark, last_call, arb, started, standardized, conn,
                   ws_data, result>>
    /\ heap' = Collect(heap, Roots')

\* get_ticker(symbol): self._ticker_data[std_symbol].copy(), a new mapping of
\* the stored dicts; kept here under its symbol
GetTickerAll(symbol) ==
    IF Std(symbol) \notin DOMAIN ticker_data
    THEN EmptyDict
    ELSE [s \in {Std(symbol)} |-> ticker_data[s]]

\* get_all_tickers(): {symbol: data.copy() for ...}, new mappings of the
\* stored dicts
GetAllTickers == [s \in DOMAIN ticker_data |-> ticker_data[s]]

\* m = repo.get_ticker(symbol) or m = repo.get_all_tickers()
ClientRead(m) ==
    /\ ClientIdle
    /\ LockFree(Client)
    /\ result' = m
    /\ UNCHANGED <<ticker_data, last_update, update_callbacks, data_lock, now, pc,
                   frame, calls, stamped, written_mark, last_call, arb, started, standardized, conn,
                   ws_data, held>>
    /\ heap' = Collect(heap, Roots')

\* d = m[symbol][exchange], a snapshot inside the returned mapping
ClientPick(s, i) ==
    /\ ClientIdle
    /\ s \in DOMAIN result
    /\ i \in DOMAIN result[s]
    /\ held' = Some([obj |-> result[s][i].obj, from |-> "mapping"])
    /\ UNCHANGED <<ticker_data, last_update, update_callbacks, data_lock, now, pc,
                   frame, calls, stamped, written_mark, last_call, arb, started, standardized, conn,
                   ws_data, result>>
    /\ heap' = Collect(heap, Roots')

\* del m[symbol][exchange], on the returned mapping
ClientDel(s, i) ==
    /\ ClientIdle
    /\ s \in DOMAIN result
    /\ i \in DOMAIN result[s]
    /\ result' = [result EXCEPT ![s] = SubSeq(@, 1, i - 1) \o SubSeq(@, i + 1, Len(@))]
    /\ UNCHANGED <<ticker_data, last_update, update_callbacks, data_lock, now, pc,
                   frame, calls, stamped, written_mark, last_call, arb, started, standardized, conn,
                   ws_data, held>>
    /\ heap' = Collect(heap, Roots')

InitApi ==
    /\ RepoInit
    /\ ThreadsInit
    /\ HistoryInit
    /\ NoSystem

NextApi ==
    \/ ClientRegister
    \/ Tick(ApiTimes)
    \/ \E m \in ApiMarks : ClientBuild(m)
    \/ \E field \in ApiFields, v \in ApiMarks : ClientSet(field, v)
    \/ \E symbol \in ApiSymbols, exchange \in ApiExchanges : ClientUpdate(symbol, exchange)
    \/ \E symbol \in ApiReadSymbols, exchange \in ApiExchanges :
           ClientGetTicker(symbol, exchange)
    \/ \E symbol \in ApiReadSymbols : ClientRead(GetTickerAll(symbol))
    \/ ClientRead(GetAllTickers)
    \/ \E s \in DOMAIN result : \E i \in DOMAIN result[s] : ClientPick(s, i)
    \/ \E s \in DOMAIN result : \E i \in DOMAIN result[s] : ClientDel(s, i)
    \/ UpdateTickerStep(Client)

SpecApi == InitApi /\ [][NextApi]_vars

--------------------------------------------------------------------------
(* C6 *)

\* the invocations the call recorded in c owes: every callback registered
\* at the time of the call once, in order, with (standardized symbol, exchange, the snapshot stored)
EveryCallbackOnce(c) ==
    [i \in 1..Len(c.registered) |->
        [callback |-> c.registered[i],
         symbol |-> Val(c.std),
         exchange |-> c.exchange,
         ticker_data |-> Val(ExGet(ticker_data[Val(c.std)], c.exchange))]]

\* C6: an update_ticker call that has returned has invoked every registered
\* callback exactly once, with (standardized symbol, exchange, new snapshot),
\* when the key had no prior entry or the new mark_price differs from the
\* mark_price stored by the previous update of that key, and has invoked no
\* callback otherwise.
C6_NotificationFiltering ==
    LET c == last_call[Client]
    IN c.returned =>
          c.invoked = IF ~c.had_prev \/ c.mark # c.prev_mark
                      THEN EveryCallbackOnce(c)
                      ELSE <<>>

--------------------------------------------------------------------------
(* C9 *)

\* what get_ticker, get_all_tickers and get_arbitrage_opportunities can
\* observe: the keys, the content of their snapshots, their timestamps
RepoView ==
    [entries |-> [s \in DOMAIN ticker_data |->
                     [i \in DOMAIN ticker_data[s] |->
                         [ex |-> ticker_data[s][i].ex,
                          snapshot |-> heap[ticker_data[s][i].obj]]]],
     stamps |-> last_update]

\* thread t is inside the locked block of update_ticker, at a statement that
\* writes
InUpdate(t) == pc[t] \in {"ut_prev", "ut_setsym", "ut_store", "ut_stamp"}

\* C9: what the reads observe changes only through update_ticker; a client
\* that changes the value a read returned (the dict from get_ticker(symbol,
\* exchange), or a snapshot inside the mapping from get_ticker(symbol) or
\* get_all_tickers()) changes nothing of it.
C9_DefensiveCopies ==
    [][RepoView' # RepoView =>
          \/ InUpdate(Client)
          \/ held # None /\ Val(held).from = "built"]_vars

--------------------------------------------------------------------------
(* The exchange feed adapters: each keeps its latest snapshot in self.data
   and hands it out by get_data. A field absent from a message reads as 0:
   float(data.get(k, 0)). *)

\* the four fields of a ticker message, with its volume
Ticker(mark, bid, ask) ==
    [k \in {"mark_price", "bid_price", "ask_price", "volume_24h"} |->
        CASE k = "mark_price" -> Some(mark)
          [] k = "bid_price" -> Some(bid)
          [] k = "ask_price" -> Some(ask)
          [] OTHER -> Some(50)]

\* the messages the exchanges send: without a price, and with prices; a
\* smaller choice for the runs with several exchanges
TickerMessages == {Ticker(0, 0, 0), Ticker(1, 1, 2), Ticker(2, 2, 1)}
BybitMarks == {0, 1, 2}
FewTickerMessages == {Ticker(0, 0, 0), Ticker(1, 1, 2)}
FewBybitMarks == {1}
BybitBooks == {[bid |-> 1, ask |-> 2]}

\* the symbol each adapter writes into its snapshot
AdapterSymbol(e) ==
    CASE e = "BYBIT-spot" -> BTCUSDT
      [] e = "KRAKEN-spot" -> BTC_USD
      [] e = "HUOBI-spot" -> BTCUSDT
      [] e = "OKX-spot" -> BTC_DASH_USDT
      [] e = "BITFINEX-spot" -> BTC_USD

\* d.update(u): the keys of u are set in d, the others kept
DictUpdate(d, u) ==
    [k \in (DOMAIN d) \cup (DOMAIN u) |-> IF k \in DOMAIN u THEN u[k] ELSE d[k]]

\* the adapters that build a new dict for every message
Replacing == {"KRAKEN-spot", "HUOBI-spot", "BITFINEX-spot"}

\* BybitSpotWebSocket.handle_ticker_data: self.data.update({symbol,
\* mark_price, volume_24h}), in place; the ticker stream has no bid and ask
BybitTicker(ticker) ==
    /\ "BYBIT-spot" \in started
    /\ LET o == Val(ws_data["BYBIT-spot"])
           u == [k \in {"symbol", "mark_price", "volume_24h"} |->
                    IF k = "symbol" THEN Some(BTCUSDT) ELSE ticker[k]]
       IN heap' = HeapPut(heap, o, DictUpdate(heap[o], u))
    /\ conn' = Consumed("BYBIT-spot")
    /\ UNCHANGED <<ticker_data, last_update, update_callbacks, data_lock, now, pc,
                   frame, calls, stamped, written_mark, last_call, arb, started, standardized,
                   ws_data, held, result>>

\* BybitSpotWebSocket.handle_orderbook_data: self.data.update({bid_price,
\* ask_price}), in place
BybitOrderbook(book) ==
    /\ "BYBIT-spot" \in started
    /\ LET o == Val(ws_data["BYBIT-spot"])
           u == [k \in {"bid_price", "ask_price"} |->
                    IF k = "bid_price" THEN Some(book.bid) ELSE Some(book.ask)]
       IN heap' = HeapPut(heap, o, DictUpdate(heap[o], u))
    /\ conn' = Consumed("BYBIT-spot")
    /\ UNCHANGED <<ticker_data, last_update, update_callbacks, data_lock, now, pc,
                   frame, calls, stamped, written_mark, last_call, arb, started, standardized,
                   ws_data, held, result>>

\* OKXSpotWebSocket.handle_message: self.data = {} the first time, then
\* self.data.update({symbol and the four fields}), in place
OkxMessage(ticker) ==
    /\ "OKX-spot" \in started
    /\ ws_data["OKX-spot"] = None => ~HeapFull(heap)
    /\ LET o == IF ws_data["OKX-spot"] = None THEN NewObj(heap)
                ELSE Val(ws_data["OKX-spot"])
           d == IF ws_data["OKX-spot"] = None THEN EmptyDict ELSE heap[o]
           u == DSet(ticker, "symbol", Some(BTC_DASH_USDT))
       IN /\ ws_data' = [ws_data EXCEPT !["OKX-spot"] = Some(o)]
          /\ heap' = HeapPut(heap, o, DictUpdate(d, u))
    /\ conn' = Consumed("OKX-spot")
    /\ UNCHANGED <<ticker_data, last_update, update_callbacks, data_lock, now, pc,
                   frame, calls, stamped, written_mark, last_call, arb, started, standardized,
                   held, result>>

\* KrakenSpotWebSocket.handle_message, HuobiSpotWebSocket.connect and
\* BitfinexSpotWebSocket.on_message: self.data = {symbol and the four
\* fields}, a new dict
ReplacingMessage(e, ticker) ==
    /\ e \in started
    /\ ~HeapFull(heap)
    /\ LET o == NewObj(heap)
       IN /\ ws_data' = [ws_data EXCEPT ![e] = Some(o)]
          /\ conn' = Consumed(e)
          /\ UNCHANGED <<ticker_data, last_update, update_callbacks, data_lock, now,
                         pc, frame, calls, stamped, written_mark, last_call, arb,
                         started, standardized, held, result>>
          /\ heap' = Collect(HeapPut(heap, o, DSet(ticker, "symbol", Some(AdapterSymbol(e)))),
                             Roots')

\* the Bybit adapter handles a message of one of its two streams
BybitStep(marks) ==
    \/ \E mark \in marks : BybitTicker(Ticker(mark, 0, 0))
    \/ \E book \in BybitBooks : BybitOrderbook(book)

--------------------------------------------------------------------------
(* update_repository_from_websocket(repo, exchange_ws, exchange_name): the
   pump thread of an exchange, one cycle of "while True" after the other *)

\* default_symbols.get(exchange_name, "BTC/USDT")
DefaultSymbol(e) ==
    CASE e = "BYBIT-spot" -> BTC_USDT
      [] e = "KRAKEN-spot" -> BTC_USD
      [] e = "HUOBI-spot" -> BTC_USDT
      [] e = "OKX-spot" -> BTC_USDT
      [] e = "BITFINEX-spot" -> BTC_USD
      [] OTHER -> BTC_USDT

\* Kraken's placeholder for "no data yet"
KrakenPlaceholder ==
    [k \in {"symbol", "mark_price", "bid_price", "ask_price", "volume_24h"} |->
        IF k = "symbol" THEN Some(BTC_USD) ELSE None]

\* "symbol" not in data or not data["symbol"]
NoSymbol(d) == DGet(d, "symbol") = None \/ DGet(d, "symbol") = Some(<<>>)

\* a completion that sets the symbol only
CompletedSymbolOnly(d, e) ==
    IF NoSymbol(d) THEN DSet(d, "symbol", Some(DefaultSymbol(e))) ELSE d

\* lines 250-259 on the dict d: the symbol is set if missing, the required
\* fields are set to None if missing
Completed(d, e) ==
    LET withSymbol == IF NoSymbol(d) THEN DSet(d, "symbol", Some(DefaultSymbol(e))) ELSE d
    IN [k \in (DOMAIN withSymbol) \cup {"mark_price", "bid_price", "ask_price", "volume_24h"} |->
           IF k \in DOMAIN withSymbol THEN withSymbol[k] ELSE None]

\* all(data.get(field) in [0, None] for field in ["mark_price", "bid_price",
\* "ask_price"])
UnpricedNoneOnly(d) ==
    \A field \in {"mark_price", "bid_price", "ask_price"} : DGet(d, field) = None
UnpricedZeroOnly(d) ==
    \A field \in {"mark_price", "bid_price", "ask_price"} : DGet(d, field) = Some(0)
Unpriced(d) ==
    \A field \in {"mark_price", "bid_price", "ask_price"} :
        DGet(d, field) \in {Some(0), None}

\* data = exchange_ws.get_data(): the adapter's self.data itself; an
\* exchange_ws whose get_data fails raises
PumpPoll(p, raises) ==
    /\ pc[p] = "poll"
    /\ IF raises
       THEN Leave(p, ExcPc(p))
       ELSE /\ pc' = [pc EXCEPT ![p] = "prepare"]
            /\ frame' = [frame EXCEPT ![p] = [NoFrame EXCEPT
                                                 !.exchange = ExchangeOf(p),
                                                 !.data = ws_data[ExchangeOf(p)]]]
    /\ UNCHANGED <<ticker_data, last_update, update_callbacks, data_lock, now, calls,
                   stamped, written_mark, last_call, outside>>
    /\ heap' = Collect(heap, Roots')

\* lines 219-259. Kraken: a placeholder dict if there is no data (its
\* float() conversions leave the adapter's floats as they are). Then
\* "if data:": without data, or with an empty dict, the cycle ends in
\* time.sleep(0.1); else the symbol and the required fields are completed
\* in the dict, and symbol = data.get("symbol").
PumpPrepare(p) ==
    /\ pc[p] = "prepare"
    /\ LET e == ExchangeOf(p)
           placeholder == e = "KRAKEN-spot" /\ frame[p].data = None
       IN IF placeholder
          THEN /\ ~HeapFull(heap)
               /\ frame' = [frame EXCEPT ![p].data = Some(NewObj(heap)),
                                         ![p].symbol = Some(BTC_USD)]
               /\ pc' = [pc EXCEPT ![p] = "validate"]
               /\ UNCHANGED <<ticker_data, last_update, update_callbacks, data_lock,
                              now, calls, stamped, written_mark, last_call, outside>>
               /\ heap' = Collect(HeapPut(heap, NewObj(heap), KrakenPlaceholder), Roots')
          ELSE IF frame[p].data = None \/ heap[Val(frame[p].data)] = EmptyDict
          THEN /\ Leave(p, "sleep")
               /\ UNCHANGED <<ticker_data, last_update, update_callbacks, data_lock,
                              now, calls, stamped, written_mark, last_call, outside>>
               /\ heap' = Collect(heap, Roots')
          ELSE LET o == Val(frame[p].data)
                   d == Completed(heap[o], e)
               IN /\ frame' = [frame EXCEPT ![p].symbol = d["symbol"]]
                  /\ pc' = [pc EXCEPT ![p] = "validate"]
                  /\ heap' = HeapPut(heap, o, d)
                  /\ UNCHANGED <<ticker_data, last_update, update_callbacks,
                                 data_lock, now, calls, stamped, written_mark,
                                 last_call, outside>>

\* lines 262-268: a dict with no price is skipped (time.sleep(0.5);
\* continue), any other is passed on: repo.update_ticker(symbol,
\* exchange_name, data)
PumpValidate(p) ==
    /\ pc[p] = "validate"
    /\ IF Unpriced(heap[Val(frame[p].data)])
       THEN /\ pc' = [pc EXCEPT ![p] = "rejected"]
            /\ UNCHANGED <<frame, last_call>>
       ELSE EnterUpdate(p, frame[p].symbol, ExchangeOf(p), Val(frame[p].data))
    /\ UNCHANGED <<heap, ticker_data, last_update, update_callbacks, data_lock, now,
                   calls, stamped, written_mark, outside>>

\* time.sleep(0.1), time.sleep(0.5) or, after an exception, time.sleep(5)
\* is over: the next cycle
PumpWake(p) ==
    /\ pc[p] \in {"sleep", "rejected", "backoff"}
    /\ Leave(p, "poll")
    /\ last_call' = [last_call EXCEPT ![p] = NoCall]
    /\ UNCHANGED <<ticker_data, last_update, update_callbacks, data_lock, now, calls,
                   stamped, written_mark, outside>>
    /\ heap' = Collect(heap, Roots')

PumpStep(p) ==
    \/ \E raises \in BOOLEAN : PumpPoll(p, raises)
    \/ PumpPrepare(p)
    \/ PumpValidate(p)
    \/ UpdateTickerStep(p)
    \/ PumpWake(p)

--------------------------------------------------------------------------
(* The running system: run_with_repository has constructed the adapters
   (each one that failed is left out) and started a pump thread for each *)

\* the adapters that were constructed: one exchange runs
Startups == {{e} : e \in Exchanges}

\* two exchanges run, one whose adapter updates its snapshot in place and one
\* whose adapter replaces it
PairStartups == {{"BYBIT-spot", "KRAKEN-spot"}}

SysTimes == {Epoch, Epoch + 1}

InitSys(startups, callbacks) ==
    /\ started \in startups
    /\ heap = IF "BYBIT-spot" \in started THEN HeapPut(EmptyDict, 1, EmptyDict)
                                            ELSE EmptyDict
    /\ ws_data = [e \in Exchanges |->
                     IF e = "BYBIT-spot" /\ e \in started THEN Some(1) ELSE None]
    /\ conn = [e \in Exchanges |-> IF e \in started THEN Connected ELSE NoConnection]
    /\ standardized = NotStandardized
    /\ ticker_data = EmptyDict
    /\ last_update = EmptyDict
    /\ update_callbacks = callbacks
    /\ data_lock = None
    /\ now = Epoch
    /\ HistoryInit
    /\ pc = [t \in Threads |->
                IF t \in Pumps /\ ExchangeOf(t) \in started THEN "poll" ELSE "idle"]
    /\ frame = [t \in Threads |-> NoFrame]
    /\ calls = [t \in Threads |-> 0]
    /\ arb = None
    /\ held = None
    /\ result = EmptyDict

NextSys ==
    \/ Register
    \/ Tick(SysTimes)
    \/ BybitStep(BybitMarks)
    \/ \E ticker \in TickerMessages : OkxMessage(ticker)
    \/ \E e \in Replacing, ticker \in TickerMessages : ReplacingMessage(e, ticker)
    \/ \E p \in Pumps : PumpStep(p)

SpecSys == InitSys(Startups, <<>>) /\ [][NextSys]_vars

\* the pumps of two exchanges next to each other, with the one callback that
\* run_with_repository registers before it starts them
NextPumps ==
    \/ BybitStep(FewBybitMarks)
    \/ \E e \in Replacing, ticker \in FewTickerMessages : ReplacingMessage(e, ticker)
    \/ \E p \in Pumps : PumpStep(p)

SpecPumps == InitSys(PairStartups, <<1>>) /\ [][NextPumps]_vars

\* the scheduling of the pump threads: a thread that can take a step takes
\* one; a thread waiting for the lock gets it, since every holder releases
\* it and then sleeps
PairPumps == {PumpOf(e) : e \in UNION PairStartups}
FairPumps ==
    \A p \in PairPumps : WF_vars(PumpStep(p)) /\ SF_vars(UtAcquire(p))

SpecPumpsFair == SpecPumps /\ FairPumps

--------------------------------------------------------------------------
(* C8 *)

\* C8: the pump loop never ends on an error. Whenever a cycle raises (in
\* get_data, in update_ticker or in a callback it calls) the pump backs off
\* and later polls again; under fairness every pump polls infinitely often.
C8_PumpSurvival ==
    \A p \in PairPumps : []<>(pc[p] = "poll")

\* a pump backs off after a callback raised in its update_ticker call, while
\* the other pump is inside update_ticker
C8_Witness ==
    \E p, q \in PairPumps :
        /\ pc[p] = "backoff"
        /\ last_call[p].raised
        /\ last_call[p].invoked # <<>>
        /\ data_lock = Some(q)

--------------------------------------------------------------------------
(* C7 *)

\* the three prices of the dict d are each None or 0
NoPrice(d) ==
    /\ d["mark_price"] = None \/ d["mark_price"] = Some(0)
    /\ d["bid_price"] = None \/ d["bid_price"] = Some(0)
    /\ d["ask_price"] = None \/ d["ask_price"] = Some(0)

\* C7: a pump whose cycle comes to its test with a snapshot whose
\* mark_price, bid_price and ask_price are all None or 0 makes no
\* update_ticker call in that cycle: it goes to its pause and from there to
\* the next poll, and in these steps the repository's entries and
\* timestamps do not change and no callback is invoked. With at least one
\* price that is neither None nor 0, the cycle calls update_ticker.
C7_PumpRejection ==
    [][\A p \in Pumps :
          /\ (pc[p] = "validate" /\ pc'[p] # "validate") =>
                IF NoPrice(heap[Val(frame[p].data)])
                THEN /\ pc'[p] = "rejected"
                     /\ RepoView' = RepoView
                     /\ last_call'[p] = NoCall
                ELSE /\ pc'[p] = "ut_acquire"
                     /\ frame'[p].data = frame[p].data
                     /\ frame'[p].exchange = ExchangeOf(p)
          /\ (pc[p] = "rejected" /\ pc'[p] # "rejected") =>
                /\ pc'[p] = "poll"
                /\ RepoView' = RepoView
                /\ last_call'[p] = NoCall]_vars

\* a pump skips a snapshot with mark_price 0, no bid, no ask and a volume,
\* for a key that has an entry, written before the clock moved on
C7_Witness ==
    \E p \in Pumps :
        /\ pc[p] = "rejected"
        /\ LET d == heap[Val(frame[p].data)]
           IN /\ d["mark_price"] = Some(0)
              /\ d["bid_price"] = None
              /\ d["ask_price"] = None
              /\ d["volume_24h"] = Some(50)
        /\ \E s \in DOMAIN last_update :
              /\ ExchangeOf(p) \in DOMAIN last_update[s]
              /\ last_update[s][ExchangeOf(p)] < now

--------------------------------------------------------------------------
(* C10 *)

\* the adapters' latest snapshots, by content
AdapterView ==
    [e \in Exchanges |->
        IF ws_data[e] = None THEN None ELSE Some(heap[Val(ws_data[e])])]

\* thread t is inside an update_ticker call
InUpdateCall(t) ==
    pc[t] \in {"ut_acquire", "ut_prev", "ut_setsym", "ut_store", "ut_stamp",
               "ut_check", "ut_notify"}

\* C10: after the handoff the repository's entry and the adapter's snapshot
\* are independent. A step that is no step of a pump (an adapter handles a
\* message) changes no stored entry, and a step of update_ticker changes no
\* adapter's snapshot.
C10_CopyOnHandoff ==
    [][/\ pc' = pc => RepoView' = RepoView
       /\ \A p \in Pumps :
             (InUpdateCall(p) /\ pc'[p] # pc[p]) => AdapterView' = AdapterView]_vars

--------------------------------------------------------------------------
(* get_arbitrage_opportunities statement by statement, in the thread that
   run_with_repository starts for it, next to the adapters and the pumps.
   The locals of the running call are kept in arb. *)

\* the exchanges that quote the symbol the detector is asked for
DetectStartups == {{"BYBIT-spot", "HUOBI-spot", "OKX-spot"}}
DetectBooks == {[bid |-> 1, ask |-> 2], [bid |-> 3, ask |-> 2]}
DetectTickers == {Ticker(1, 1, 2)}
DetectSymbols == {Some(BTC_USDT)}
DetectThresholds == {Frac(1, 5)}

\* one cycle of a pump that gets a snapshot with a price and passes it to
\* update_ticker, on a repository without callbacks: lines 216-268 and
\* 36-45. The cycle waits for the lock while the detector holds it, and its
\* writes to the repository are made under the lock.
PumpCycle(p) ==
    /\ pc[p] = "poll"
    /\ data_lock = None
    /\ update_callbacks = <<>>
    /\ ws_data[ExchangeOf(p)] # None
    /\ LET e == ExchangeOf(p)
           o == Val(ws_data[e])
           d == Completed(heap[o], e)
       IN /\ heap[o] # EmptyDict
          /\ ~Unpriced(d)
          /\ ~StdRaises(d["symbol"])
          /\ LET std == Std(d["symbol"])
             IN /\ ticker_data' = StoredTicker(ticker_data, std, e, o)
                /\ last_update' = StampPut(last_update, std, e, now)
                /\ written_mark' = DSet(written_mark, <<std, e>>, DGet(d, "mark_price"))
                /\ UNCHANGED <<update_callbacks, data_lock, now, pc, frame, calls,
                               stamped, last_call, outside>>
                /\ heap' = Collect(HeapPut(heap, o, DSet(d, "symbol", Some(std))), Roots')

\* lines 105-125: the lock is taken, an unknown symbol returns [] at once;
\* else active_exchanges is built, a new dict of the stored dicts. observed
\* is history: the prices the loops have read
DetectBegin(symbol, min_profit_percent) ==
    /\ pc[Client] = "idle"
    /\ LockFree(Client)
    /\ ~StdRaises(symbol)
    /\ LET std == Std(symbol)
           known == std \in DOMAIN ticker_data
           active == IF known THEN ActiveExchanges(std, now) ELSE <<>>
       IN /\ arb' = Some([symbol |-> symbol,
                          min_profit_percent |-> min_profit_percent,
                          at |-> now,
                          std |-> std,
                          active |-> active,
                          i |-> 1, j |-> 1, buy_price |-> None, found |-> <<>>,
                          observed |-> {},
                          ret |-> IF known THEN None ELSE Some(<<>>)])
          /\ data_lock' = IF known THEN Some(Client) ELSE data_lock
          /\ pc' = [pc EXCEPT ![Client] = IF known THEN "arb_buy" ELSE "idle"]
    /\ UNCHANGED <<heap, ticker_data, last_update, update_callbacks, now, frame,
                   calls, stamped, written_mark, last_call, started, standardized, conn, ws_data, held,
                   result>>

\* "for i in range(len(exchange_list))": buy_price is read and tested; after
\* the last i the list is sorted, the lock released and the list returned
DetectBuy ==
    /\ pc[Client] = "arb_buy"
    /\ LET a == Val(arb)
       IN IF a.i > Len(a.active)
          THEN /\ arb' = Some([a EXCEPT !.ret = Some(SortDesc(a.found))])
               /\ data_lock' = None
               /\ pc' = [pc EXCEPT ![Client] = "idle"]
          ELSE LET buy_price == DGet(heap[a.active[a.i].obj], "ask_price")
                   seen == a.observed \cup {[ex |-> a.active[a.i].ex,
                                             field |-> "ask_price",
                                             value |-> buy_price]}
               IN /\ UNCHANGED data_lock
                  /\ IF NoneOrZero(buy_price)
                     THEN /\ arb' = Some([a EXCEPT !.observed = seen, !.i = a.i + 1])
                          /\ UNCHANGED pc
                     ELSE /\ arb' = Some([a EXCEPT !.observed = seen,
                                                   !.buy_price = buy_price,
                                                   !.j = 1])
                          /\ pc' = [pc EXCEPT ![Client] = "arb_sell"]
    /\ UNCHANGED <<heap, ticker_data, last_update, update_callbacks, now, frame,
                   calls, stamped, written_mark, last_call, started, standardized, conn, ws_data, held,
                   result>>

\* "for j in range(len(exchange_list))": sell_price is read and tested, the
\* profit computed and the opportunity appended
DetectSell ==
    /\ pc[Client] = "arb_sell"
    /\ LET a == Val(arb)
       IN IF a.j > Len(a.active)
          THEN /\ arb' = Some([a EXCEPT !.i = a.i + 1])
               /\ pc' = [pc EXCEPT ![Client] = "arb_buy"]
          ELSE IF a.i = a.j
          THEN /\ arb' = Some([a EXCEPT !.j = a.j + 1])
               /\ UNCHANGED pc
          ELSE LET sell_price == DGet(heap[a.active[a.j].obj], "bid_price")
                   seen == a.observed \cup {[ex |-> a.active[a.j].ex,
                                             field |-> "bid_price",
                                             value |-> sell_price]}
                   profit_percent == ProfitPercent(Val(a.buy_price), Val(sell_price))
                   opp == [symbol |-> a.std,
                           buy_exchange |-> a.active[a.i].ex,
                           buy_price |-> Val(a.buy_price),
                           sell_exchange |-> a.active[a.j].ex,
                           sell_price |-> Val(sell_price),
                           profit_percent |-> profit_percent]
               IN /\ UNCHANGED pc
                  /\ IF NoneOrZero(sell_price)
                     THEN arb' = Some([a EXCEPT !.observed = seen, !.j = a.j + 1])
                     ELSE IF Qualifies(profit_percent, a.min_profit_percent)
                     THEN arb' = Some([a EXCEPT !.observed = seen, !.j = a.j + 1,
                                                !.found = Append(a.found, opp)])
                     ELSE arb' = Some([a EXCEPT !.observed = seen, !.j = a.j + 1])
    /\ UNCHANGED <<heap, ticker_data, last_update, update_callbacks, data_lock, now,
                   frame, calls, stamped, written_mark, last_call, started, standardized, conn, ws_data,
                   held, result>>

NextDetect ==
    \/ \E mark \in FewBybitMarks : BybitTicker(Ticker(mark, 0, 0))
    \/ \E book \in DetectBooks : BybitOrderbook(book)
    \/ \E ticker \in DetectTickers : OkxMessage(ticker)
    \/ \E ticker \in DetectTickers : ReplacingMessage("HUOBI-spot", ticker)
    \/ \E p \in Pumps : PumpCycle(p)
    \/ \E symbol \in DetectSymbols, min_profit_percent \in DetectThresholds :
           DetectBegin(symbol, min_profit_percent)
    \/ DetectBuy
    \/ DetectSell

SpecDetect == InitSys(DetectStartups, <<>>) /\ [][NextDetect]_vars

--------------------------------------------------------------------------
(* C11 *)

\* C11: within one get_arbitrage_opportunities call, running next to the
\* adapters and the pumps, the prices used come from one single state of the
\* repository: the ask_price and the bid_price read for an exchange are the
\* same in all the pairs it appears in; no exchange's bid or ask is observed
\* with two different values during the call.
C11_ConsistentSnapshot ==
    arb # None =>
        \A r, q \in Val(arb).observed :
            (r.ex = q.ex /\ r.field = q.field) => r.value = q.value

--------------------------------------------------------------------------
(* C12 *)

\* C12: a slow callback cannot block producers. While a callback invoked by
\* the update_ticker call of one exchange's pump is running, the
\* update_ticker call of another exchange's pump can go on: a pump that
\* waits at "with self._data_lock" finds the lock free.
C12_SlowCallbacks ==
    \A p, q \in Pumps :
        (pc[p] = "ut_notify" /\ pc[q] = "ut_acquire") => LockFree(q)

--------------------------------------------------------------------------
(* The adapters' connections: the connection loop of each adapter and the
   messages it receives *)

RecursionLimit == 3  \* nested calls of connect() that Python allows

\* what arrives on a connection: a ticker message with the mapped fields it
\* has (a field of the message is named by the snapshot field it maps to),
\* text that is no JSON, and JSON without the expected structure
MessageFields == {"mark_price", "bid_price", "ask_price", "volume_24h"}
TickerMessage(fields) == [kind |-> "ticker", fields |-> fields]
InvalidJson == [kind |-> "invalid_json", fields |-> EmptyDict]
NoStructure == [kind |-> "no_structure", fields |-> EmptyDict]
Without(ticker, absent) == [k \in (DOMAIN ticker) \ absent |-> ticker[k]]
Messages ==
    {TickerMessage(Ticker(1, 1, 2)),
     TickerMessage(Without(Ticker(2, 2, 1), {"bid_price"})),
     TickerMessage(Without(Ticker(2, 2, 1), {"mark_price", "volume_24h"})),
     InvalidJson, NoStructure}

\* float(data.get(k, 0)) for each mapped field
FromMessage(fields) ==
    [k \in MessageFields |-> IF k \in DOMAIN fields THEN fields[k] ELSE Some(0)]

\* the adapters whose loop calls json.loads outside every try block but the
\* one around the connection
ParsesUnguarded == {"KRAKEN-spot", "OKX-spot"}

\* where the connection loop goes when the connection is lost or cannot be
\* made. Kraken and OKX: the outer except, which sleeps and connects again.
\* Huobi: recv() is inside the try of the inner loop, whose except continues
\* the inner loop on the closed connection. Bitfinex: run_forever returns
\* and its thread ends. Bybit, while connect() runs: except, sleep and a
\* nested self.connect().
AfterLoss(e) ==
    CASE e \in {"KRAKEN-spot", "OKX-spot"} -> "backoff"
      [] e = "HUOBI-spot" -> "broken"
      [] e = "BITFINEX-spot" -> "closed"
      [] OTHER -> "connected"
AfterRefusal(e) ==
    IF e = "BITFINEX-spot" THEN "closed" ELSE "backoff"

ConnectionFrame ==
    <<heap, ticker_data, last_update, update_callbacks, data_lock, now, pc, frame,
      calls, stamped, written_mark, last_call, arb, started, standardized, ws_data, held, result>>

\* a connection attempt succeeds or fails
Connect(e, ok) ==
    /\ conn[e].st = "connecting"
    /\ conn' = [conn EXCEPT ![e].st = IF ok THEN "connected" ELSE AfterRefusal(e),
                            ![e].depth = IF ok THEN 0 ELSE @]
    /\ UNCHANGED ConnectionFrame

\* the sleep of 5 seconds is over: the loop connects again. Bybit's
\* connect() calls itself, and when Python allows no deeper call the
\* RecursionError leaves every except block and the constructor
Retry(e) ==
    /\ conn[e].st = "backoff"
    /\ IF e = "BYBIT-spot"
       THEN IF conn[e].depth < RecursionLimit
            THEN conn' = [conn EXCEPT ![e].st = "connecting", ![e].depth = @ + 1]
            ELSE conn' = [conn EXCEPT ![e].st = "failed"]
       ELSE conn' = [conn EXCEPT ![e].st = "connecting"]
    /\ UNCHANGED ConnectionFrame

\* the connection is lost while the loop waits for a message. The source
\* has no code for the loss of the Bybit connection, which pybit keeps.
Lose(e) ==
    /\ e # "BYBIT-spot"
    /\ conn[e].st = "connected"
    /\ conn[e].rx = None
    /\ conn' = [conn EXCEPT ![e].st = AfterLoss(e)]
    /\ UNCHANGED ConnectionFrame

\* message = await ws.recv(), or the library calls the callback with the
\* message; pybit passes parsed messages only
Recv(e, msg) ==
    /\ conn[e].st = "connected"
    /\ conn[e].rx = None
    /\ e = "BYBIT-spot" => msg.kind # "invalid_json"
    /\ conn' = [conn EXCEPT ![e].rx = Some(msg)]
    /\ UNCHANGED ConnectionFrame

\* the message is dropped: nothing but the loop's position changes
Drop(e) ==
    /\ conn' = [conn EXCEPT ![e].rx = None]
    /\ UNCHANGED ConnectionFrame

\* json.loads raises outside handle_message: the exception leaves "async
\* with", which closes the connection, and reaches the outer except
Unwind(e) ==
    /\ conn' = [conn EXCEPT ![e].rx = None, ![e].st = "backoff"]
    /\ UNCHANGED ConnectionFrame

\* the message received is parsed and handled
Handle(e) ==
    /\ conn[e].rx # None
    /\ LET msg == Val(conn[e].rx)
           ticker == FromMessage(msg.fields)
       IN CASE msg.kind = "invalid_json" ->
                 IF e \in ParsesUnguarded THEN Unwind(e) ELSE Drop(e)
            [] msg.kind = "no_structure" -> Drop(e)
            [] OTHER ->
                 CASE e = "BYBIT-spot" -> BybitTicker(ticker)
                   [] e = "OKX-spot" -> OkxMessage(ticker)
                   [] e = "BITFINEX-spot" ->
                        \* a list with fewer than 8 numbers is left alone
                        IF DOMAIN msg.fields = MessageFields
                        THEN ReplacingMessage(e, ticker)
                        ELSE Drop(e)
                   [] OTHER -> ReplacingMessage(e, ticker)

\* the steps of the adapter's own thread
AdapterThread(e) ==
    \/ \E ok \in BOOLEAN : Connect(e, ok)
    \/ Retry(e)
    \/ Handle(e)

\* the constructor of one adapter has started its connection; Bybit's is
\* inside connect()
InitAdapters ==
    /\ started \in Startups
    /\ heap = IF "BYBIT-spot" \in started THEN HeapPut(EmptyDict, 1, EmptyDict)
                                            ELSE EmptyDict
    /\ ws_data = [e \in Exchanges |->
                     IF e = "BYBIT-spot" /\ e \in started THEN Some(1) ELSE None]
    /\ conn = [e \in Exchanges |->
                  IF e \in started
                  THEN [st |-> "connecting", rx |-> None, heard |-> None,
                        depth |-> IF e = "BYBIT-spot" THEN 1 ELSE 0]
                  ELSE NoConnection]
    /\ standardized = NotStandardized
    /\ ticker_data = EmptyDict
    /\ last_update = EmptyDict
    /\ update_callbacks = <<>>
    /\ data_lock = None
    /\ now = Epoch
    /\ HistoryInit
    /\ ThreadsInit
    /\ arb = None
    /\ held = None
    /\ result = EmptyDict

NextAdapters ==
    \E e \in Exchanges :
        \/ AdapterThread(e)
        \/ Lose(e)
        \/ \E msg \in Messages : Recv(e, msg)

SpecAdapters == InitAdapters /\ [][NextAdapters]_vars

\* the adapter's thread runs whenever it can
FairAdapters == \A e \in Exchanges : WF_vars(AdapterThread(e))
SpecAdaptersFair == SpecAdapters /\ FairAdapters

--------------------------------------------------------------------------
(* C13 *)

\* the connection is down: the loop sleeps before its next attempt, runs on
\* a closed connection, or has ended
Down == {"backoff", "broken", "closed", "failed"}

\* C13: for each of the five adapters, every loss of the connection and
\* every failed connection attempt is eventually followed by a new
\* connection attempt, however many attempts have failed before; and what
\* get_data returns does not change when the connection is lost, retried or
\* made again.
C13_Reconnection ==
    /\ \A e \in Exchanges : [](conn[e].st \in Down => <>(conn[e].st = "connecting"))
    /\ [][\A e \in Exchanges :
             conn'[e].st # conn[e].st => AdapterView' = AdapterView]_vars

--------------------------------------------------------------------------
(* C14 *)

\* adapter e has received a message and its handling ends with this step
Handled(e) == conn[e].rx # None /\ conn'[e].rx = None

\* C14: a message that cannot be parsed (text that is no JSON, or JSON
\* without the expected structure) does not close or restart the
\* connection. When an adapter has handled such a message it is still
\* connected, waiting for the next message of the same connection, and its
\* latest snapshot is as it was.
C14_MalformedTolerance ==
    [][\A e \in Exchanges :
          (Handled(e) /\ Val(conn[e].rx).kind \in {"invalid_json", "no_structure"}) =>
              /\ conn'[e].st = "connected"
              /\ AdapterView'[e] = AdapterView[e]]_vars

--------------------------------------------------------------------------
(* C15 *)

\* field k of the snapshot get_data returns, None while there is no snapshot
FieldOf(view, k) == IF view = None THEN None ELSE DGet(Val(view), k)

\* C15: when an adapter has handled a ticker message in which a mapped field
\* is absent, that field of its latest snapshot has the value it had before
\* if there was a snapshot with the field, and is None otherwise: an absent
\* field does not turn into 0 and does not reset a known value.
C15_PartialMerge ==
    [][\A e \in Exchanges :
          (Handled(e) /\ Val(conn[e].rx).kind = "ticker") =>
              \A k \in MessageFields \ DOMAIN Val(conn[e].rx).fields :
                  FieldOf(AdapterView'[e], k) = FieldOf(AdapterView[e], k)]_vars

--------------------------------------------------------------------------
(* _standardize_symbol called directly, and then with what it returned; the
   argument is also passed to the repository's methods *)

StdMaxLen == 3  \* length of the strings that are tried in full

\* None, every string up to StdMaxLen over a letter of each case, "/" and
\* "-", and spellings of the two pairs
StdAlphabet == {"a", "B", "/", "-"}
StdStrings == UNION {[1..n -> StdAlphabet] : n \in 0..StdMaxLen}
StdSpellings ==
    {BTC_USDT, BTC_USD, BTCUSDT, BTCUSD, BTC_DASH_USDT, btcusdt,
     BTC_DASH_USD_DASH_T,
     <<"b", "t", "c", "u", "s", "d">>,
     <<"b", "t", "c", "/", "u", "s", "d", "t">>,
     <<"b", "t", "c", "-", "u", "s", "d">>,
     <<"X", "B", "T", "C", "U", "S", "D">>,
     <<"U", "S", "D", "T", "B", "T", "C">>,
     <<"B", "T", "C", "E", "U", "R">>}
StdInputs == {None} \cup {Some(x) : x \in StdStrings \cup StdSpellings}

StdFrame ==
    <<heap, ticker_data, last_update, update_callbacks, data_lock, now, pc, frame,
      calls, stamped, written_mark, last_call, arb, started, conn, ws_data, held,
      result>>

\* y = repo._standardize_symbol(x), then z = repo._standardize_symbol(y)
StdCall ==
    /\ standardized.calls < 2
    /\ ~standardized.raised
    /\ LET symbol == IF standardized.calls = 0 THEN standardized.x ELSE standardized.y
           raises == StandardizeRaises(symbol)
           ret == IF raises THEN None ELSE Some(Standardize(symbol))
       IN standardized' = [standardized EXCEPT
                              !.calls = @ + 1,
                              !.raised = raises,
                              !.y = IF standardized.calls = 0 THEN ret ELSE @,
                              !.z = IF standardized.calls = 1 THEN ret ELSE @]
    /\ UNCHANGED StdFrame

\* repo.update_ticker(x, 'X', {...}) and repo.get_arbitrage_opportunities(x,
\* 0.5), for the arguments that these calls are modelled for
StdUpdate ==
    /\ standardized.x \in RawSymbols
    /\ ticker_data = EmptyDict
    /\ UpdateTickerCall(standardized.x, WriterExchange, Ticker(1, 1, 2))
    /\ UNCHANGED outside

StdDetect ==
    /\ standardized.x \in RawSymbols
    /\ arb = None
    /\ GetArb(standardized.x, Frac(1, 2))

InitStd ==
    /\ RepoInit
    /\ ThreadsInit
    /\ HistoryInit
    /\ arb = None
    /\ started = {}
    /\ conn = [e \in Exchanges |-> NoConnection]
    /\ ws_data = [e \in Exchanges |-> None]
    /\ held = None
    /\ result = EmptyDict
    /\ \E x \in StdInputs : standardized = [NotStandardized EXCEPT !.x = x]

NextStd ==
    \/ StdCall
    \/ StdUpdate
    \/ StdDetect

SpecStd == InitStd /\ [][NextStd]_vars

\* C16: standardization is idempotent: for every input x (None, the empty
\* string, every string over letters of both cases, "/" and "-"),
\* _standardize_symbol(x) has a value and
\* _standardize_symbol(_standardize_symbol(x)) equals it.
C16_Idempotence ==
    /\ standardized.calls >= 1 => ~standardized.raised
    /\ standardized.calls = 2 => standardized.z = standardized.y

EmptySymbol == Some(<<>>)

\* C17: _standardize_symbol(None) and _standardize_symbol("") both return
\* "BTC/USDT", so update_ticker and get_arbitrage_opportunities called with
\* None or "" operate on the "BTC/USDT" key.
C17_DefaultSymbol ==
    standardized.x \in {None, EmptySymbol} =>
        /\ standardized.calls >= 1 =>
               ~standardized.raised /\ standardized.y = Some(BTC_USDT)
        /\ DOMAIN ticker_data \subseteq {BTC_USDT}
        /\ arb # None => Val(arb).ret.std = Some(BTC_USDT)

\* "BASE/QUOTE" of a string with one "-"
BaseQuote(s) == Split(s, "-")[1] \o <<"/">> \o Split(s, "-")[2]

\* C18: the rules in order, for every non-empty string: with a "/" the input
\* is returned unchanged; otherwise with any number of "-" it is split and
\* returned as "BASE/QUOTE" without raising; otherwise "BTCUSDT" and "BTCUSD"
\* in either case give "BTC/USDT" and "BTC/USD"; otherwise a string with
\* "BTC" and "USDT" gives "BTC/USDT" and one with "BTC" and "USD" but not
\* "USDT" gives "BTC/USD"; otherwise the input is returned unchanged.
C18_RulesInOrder ==
    (standardized.calls >= 1 /\ standardized.x \notin {None, EmptySymbol}) =>
        LET s == Val(standardized.x)
            u == Upper(s)
            y == standardized.y
        IN /\ ~standardized.raised
           /\ IF Contains(s, <<"/">>) THEN y = Some(s)
              ELSE IF Contains(s, <<"-">>)
              THEN Len(Split(s, "-")) = 2 => y \in {Some(BaseQuote(s)), Some(BaseQuote(u))}
              ELSE IF u = BTCUSDT THEN y = Some(BTC_USDT)
              ELSE IF u = BTCUSD THEN y = Some(BTC_USD)
              ELSE IF Contains(u, <<"B", "T", "C">>) /\ Contains(u, <<"U", "S", "D", "T">>)
              THEN y = Some(BTC_USDT)
              ELSE IF Contains(u, <<"B", "T", "C">>) /\ Contains(u, <<"U", "S", "D">>)
              THEN y = Some(BTC_USD)
              ELSE y = Some(s)

--------------------------------------------------------------------------
(* C19 *)

\* the snapshot stored for the key (s, e), and the key's timestamp
StoredFor(td, s, e) == ExGet(TickerOf(td, s), e)
Stamped(lu, s, e) == s \in DOMAIN lu /\ e \in DOMAIN lu[s]

--------------------------------------------------------------------------
(* A client that writes several keys: two symbols and a symbol that
   _standardize_symbol rejects, with the dicts it builds; one callback is
   registered *)

KeySymbols == {Some(BTC_USDT), Some(BTC_USD), Some(BTC_DASH_USD_DASH_T)}
KeyExchanges == {"X"}
KeyMarks == {1}

InitKeys ==
    /\ heap = EmptyDict
    /\ ticker_data = EmptyDict
    /\ last_update = EmptyDict
    /\ update_callbacks = <<1>>
    /\ data_lock = None
    /\ now = Epoch
    /\ ThreadsInit
    /\ HistoryInit
    /\ NoSystem

NextKeys ==
    \/ Tick(ApiTimes)
    \/ \E m \in KeyMarks : ClientBuild(m)
    \/ \E symbol \in KeySymbols, exchange \in KeyExchanges : ClientUpdate(symbol, exchange)
    \/ UpdateTickerStep(Client)

SpecKeys == InitKeys /\ [][NextKeys]_vars

--------------------------------------------------------------------------
(* C20 *)

\* what the repository holds for the key (s, e): the snapshot and the
\* timestamp, None where there is none
KeyView(td, lu, h, s, e) ==
    [snapshot |-> IF StoredFor(td, s, e) = None THEN None
                  ELSE Some(h[Val(StoredFor(td, s, e))]),
     stamp |-> IF Stamped(lu, s, e) THEN Some(lu[s][e]) ELSE None]

AllKeys == (DOMAIN ticker_data \cup DOMAIN last_update) \X (Exchanges \cup KeyExchanges)

\* every key but mine holds after the step what it held before
OthersUnchanged(mine) ==
    \A k \in AllKeys \ mine :
        KeyView(ticker_data', last_update', heap', k[1], k[2])
            = KeyView(ticker_data, last_update, heap, k[1], k[2])

\* the key of the call thread t is in before or after the step, if any
CallKey(t) ==
    IF frame[t].std # None THEN {<<Val(frame[t].std), frame[t].exchange>>}
    ELSE IF frame'[t].std # None THEN {<<Val(frame'[t].std), frame'[t].exchange>>}
    ELSE {}

\* the step is one of an update_ticker call of thread t: it enters the call
\* (which returns or raises in _standardize_symbol) or goes on inside it
CallStep(t) ==
    \/ InUpdateCall(t) /\ pc'[t] # pc[t]
    \/ last_call'[t] # last_call[t]

\* C20: a step of an update_ticker call for the key (s, e), up to its return
\* or its exception, leaves the snapshot and the timestamp of every other
\* key as they were; and the step in which a pump's cycle fails (exception
\* and backoff, rejected snapshot) changes no entry of another exchange.
C20_KeyIsolation ==
    [][\A t \in Threads :
          /\ CallStep(t) => OthersUnchanged(CallKey(t))
          /\ (t \in Pumps /\ pc'[t] # pc[t] /\ pc'[t] \in {"backoff", "rejected"}) =>
                OthersUnchanged(AllKeys \cap {k \in AllKeys : k[2] = ExchangeOf(t)})]_vars

--------------------------------------------------------------------------
(* C21 *)

\* the (symbol, exchange) keys of a mapping that a read returned
KeysOf(m) == UNION {{<<s, m[s][i].ex>> : i \in DOMAIN m[s]} : s \in DOMAIN m}

\* the symbols a read can be made with
ReadableSymbols == {symbol \in RawSymbols : ~StdRaises(symbol)}

\* the keys that get_all_tickers(), get_ticker(symbol) and get_ticker(symbol,
\* exchange) show are the keys that update_ticker has stored (the domain of
\* written_mark), each with one entry
KeySetExact ==
    /\ KeysOf(GetAllTickers) = DOMAIN written_mark
    /\ \A s \in DOMAIN GetAllTickers : \A i, j \in DOMAIN GetAllTickers[s] :
          GetAllTickers[s][i].ex = GetAllTickers[s][j].ex => i = j
    /\ \A symbol \in ReadableSymbols :
          /\ KeysOf(GetTickerAll(symbol))
                = {k \in DOMAIN written_mark : k[1] = Std(symbol)}
          /\ \A e \in Exchanges \cup KeyExchanges :
                GetTicker(symbol, e) # None <=> <<Std(symbol), e>> \in DOMAIN written_mark

\* C21: in every reachable state the keys visible through get_ticker and
\* get_all_tickers are exactly the (standardized symbol, exchange) keys that
\* an update_ticker call has stored; a key never written is never returned
\* (get_ticker gives None), each key has at most one entry, and a key once
\* written is never removed, also when it is stale for arbitrage.
C21_KeySet ==
    [][/\ KeySetExact
       /\ KeySetExact'
       /\ KeysOf(GetAllTickers) \subseteq (KeysOf(GetAllTickers))']_vars

\* an entry written twice is 30 seconds old: get_arbitrage_opportunities has
\* left it out, get_ticker returns it, and get_ticker of the symbol that was
\* never written returns None
C21_Witness ==
    \E ex \in ArbExchanges :
        /\ GetTicker(Some(BTCUSDT), ex) # None
        /\ last_update[BTC_USDT][ex] > Epoch
        /\ now - last_update[BTC_USDT][ex] >= StaleAfter
        /\ GetTicker(Some(BTC_USD), ex) = None
        /\ arb # None
        /\ Val(arb).ret.std = Some(BTC_USDT)
        /\ \A k \in DOMAIN Val(arb).ret.active : Val(arb).ret.active[k].ex # ex

--------------------------------------------------------------------------
(* C22 *)

RequiredFields == {"mark_price", "bid_price", "ask_price", "volume_24h"}

\* the snapshots readable from the repository
StoredSnapshots ==
    {heap[ticker_data[s][i].obj] : <<s, i>> \in
        UNION {{<<s, i>> : i \in DOMAIN ticker_data[s]} : s \in DOMAIN ticker_data}}

\* C22: every snapshot a pump writes into the repository has the four keys
\* mark_price, bid_price, ask_price and volume_24h (each possibly None), so
\* every entry readable from a pump-fed repository has all four keys in
\* every reachable state.
C22_AllFieldsPresent ==
    /\ \A d \in StoredSnapshots : RequiredFields \subseteq DOMAIN d
    /\ \A p \in Pumps :
          InUpdateCall(p) => RequiredFields \subseteq DOMAIN heap[Val(frame[p].data)]

\* Bybit's snapshot came from the order book stream alone: the entry holds
\* the two prices, and mark_price and volume_24h as None
C22_Witness ==
    /\ BTC_USDT \in DOMAIN ticker_data
    /\ \E i \in DOMAIN ticker_data[BTC_USDT] :
          /\ ticker_data[BTC_USDT][i].ex = "BYBIT-spot"
          /\ LET d == heap[ticker_data[BTC_USDT][i].obj]
             IN /\ d["mark_price"] = None
                /\ d["volume_24h"] = None
                /\ d["bid_price"] # None

--------------------------------------------------------------------------
(* run_with_repository: the thread that constructs the adapters one after
   the other and then starts a pump thread for each one constructed. The
   thread is Client; two of the five adapters are constructed, Bybit's, whose
   constructor connects, and Kraken's, whose constructor starts a thread.
   Kraken sends tickers; Bybit, once connected, sends nothing. *)

StartOrder == <<"BYBIT-spot", "KRAKEN-spot">>
StartSet == {StartOrder[i] : i \in DOMAIN StartOrder}
StartMessages == {TickerMessage(Ticker(1, 1, 2))}

\* the main thread is inside "xxx_ws = XxxSpotWebSocket()"
ConstructPc(e) ==
    CASE e = "BYBIT-spot" -> "construct_bybit"
      [] e = "KRAKEN-spot" -> "construct_kraken"
      [] e = "HUOBI-spot" -> "construct_huobi"
      [] e = "OKX-spot" -> "construct_okx"
      [] OTHER -> "construct_bitfinex"
Constructing(e) == pc[Client] = ConstructPc(e)

\* where the main thread goes on after the try block of adapter e
AfterConstruct(e) ==
    LET i == CHOOSE k \in DOMAIN StartOrder : StartOrder[k] = e
    IN IF i = Len(StartOrder) THEN "start_threads" ELSE ConstructPc(StartOrder[i + 1])

\* BybitSpotWebSocket.__init__: self.data = {} and self.connect() is entered,
\* in the caller's thread
BybitInit ==
    /\ Constructing("BYBIT-spot")
    /\ conn["BYBIT-spot"].st = "none"
    /\ ~HeapFull(heap)
    /\ ws_data' = [ws_data EXCEPT !["BYBIT-spot"] = Some(NewObj(heap))]
    /\ heap' = HeapPut(heap, NewObj(heap), EmptyDict)
    /\ conn' = [conn EXCEPT !["BYBIT-spot"] = [st |-> "connecting", rx |-> None, depth |-> 1, heard |-> None]]
    /\ UNCHANGED <<ticker_data, last_update, update_callbacks, data_lock, now, pc,
                   frame, calls, stamped, written_mark, last_call, arb, started,
                   standardized, held, result>>

\* connect() has returned: the constructor returns and the adapter is
\* appended to exchanges
BybitConstructed ==
    /\ Constructing("BYBIT-spot")
    /\ conn["BYBIT-spot"].st = "connected"
    /\ started' = started \cup {"BYBIT-spot"}
    /\ pc' = [pc EXCEPT ![Client] = AfterConstruct("BYBIT-spot")]
    /\ UNCHANGED <<heap, ticker_data, last_update, update_callbacks, data_lock, now,
                   frame, calls, stamped, written_mark, last_call, arb,
                   standardized, conn, ws_data, held, result>>

\* the constructor raised: "except Exception" of run_with_repository leaves
\* the adapter out
BybitRaised ==
    /\ Constructing("BYBIT-spot")
    /\ conn["BYBIT-spot"].st = "failed"
    /\ ws_data' = [ws_data EXCEPT !["BYBIT-spot"] = None]
    /\ pc' = [pc EXCEPT ![Client] = AfterConstruct("BYBIT-spot")]
    /\ UNCHANGED <<ticker_data, last_update, update_callbacks, data_lock, now,
                   frame, calls, stamped, written_mark, last_call, arb, started,
                   standardized, conn, held, result>>
    /\ heap' = Collect(heap, Roots')

\* the constructors that start a thread for the connection and return
ConstructThreaded(e) ==
    /\ e # "BYBIT-spot"
    /\ Constructing(e)
    /\ conn' = [conn EXCEPT ![e] = [st |-> "connecting", rx |-> None, depth |-> 0,
                                     heard |-> None]]
    /\ started' = started \cup {e}
    /\ pc' = [pc EXCEPT ![Client] = AfterConstruct(e)]
    /\ UNCHANGED <<heap, ticker_data, last_update, update_callbacks, data_lock, now,
                   frame, calls, stamped, written_mark, last_call, arb,
                   standardized, ws_data, held, result>>

\* "for ws, name in exchanges": thread.start() for the next adapter of the
\* list, and the end of the loop
NotStartedYet == {i \in DOMAIN StartOrder :
                     StartOrder[i] \in started /\ pc[PumpOf(StartOrder[i])] = "idle"}
StartThread ==
    /\ pc[Client] = "start_threads"
    /\ IF NotStartedYet = {}
       THEN pc' = [pc EXCEPT ![Client] = "running"]
       ELSE LET i == CHOOSE k \in NotStartedYet : \A j \in NotStartedYet : k <= j
            IN pc' = [pc EXCEPT ![PumpOf(StartOrder[i])] = "poll"]
    /\ UNCHANGED <<heap, ticker_data, last_update, update_callbacks, data_lock, now,
                   frame, calls, stamped, written_mark, last_call, outside>>

\* the steps of the thread that runs run_with_repository; Bybit's
\* connection attempts and the sleeps between them are steps of it
MainThread ==
    \/ BybitInit
    \/ \E ok \in BOOLEAN : Connect("BYBIT-spot", ok)
    \/ Retry("BYBIT-spot")
    \/ BybitConstructed
    \/ BybitRaised
    \/ \E e \in StartSet : ConstructThreaded(e)
    \/ StartThread

\* lines 261-264: the repository with the UI's callback registered
InitStart ==
    /\ heap = EmptyDict
    /\ ticker_data = EmptyDict
    /\ last_update = EmptyDict
    /\ update_callbacks = <<1>>
    /\ data_lock = None
    /\ now = Epoch
    /\ HistoryInit
    /\ pc = [t \in Threads |-> IF t = Client THEN ConstructPc(StartOrder[1]) ELSE "idle"]
    /\ frame = [t \in Threads |-> NoFrame]
    /\ calls = [t \in Threads |-> 0]
    /\ NoSystem

NextStart ==
    \/ MainThread
    \/ \E e \in StartSet \ {"BYBIT-spot"} : AdapterThread(e) \/ Lose(e)
    \/ \E e \in StartSet \ {"BYBIT-spot"}, msg \in StartMessages : Recv(e, msg)
    \/ \E p \in PairPumps : PumpStep(p)

SpecStart == InitStart /\ [][NextStart]_vars

FairStart ==
    /\ WF_vars(MainThread)
    /\ \A e \in StartSet : WF_vars(AdapterThread(e))
    /\ \A p \in PairPumps : WF_vars(PumpStep(p)) /\ SF_vars(UtAcquire(p))
SpecStartFair == SpecStart /\ FairStart

--------------------------------------------------------------------------
(* C23 *)

\* C23: constructing an adapter returns to the caller without waiting on
\* the network: the main thread is never inside the constructor of an
\* adapter whose connection attempt has failed and waits to be made again,
\* so such an exchange does not delay the start of the others; and under
\* fairness the pump of every other exchange eventually runs.
C23_NonBlockingStart ==
    /\ [](\A e \in StartSet : conn[e].st = "backoff" => ~Constructing(e))
    /\ \A e \in StartSet \ {"BYBIT-spot"} : <>(pc[PumpOf(e)] = "poll")

--------------------------------------------------------------------------
(* A client that reads while the writers' update_ticker calls are under
   way; one callback is registered *)

ReadSymbols == {Some(BTCUSDT), Some(BTC_USD), None}
ReadThresholds == {Frac(1, 2)}

\* the steps of a writer's call, with the callbacks
WriterStepNotify(w) == UpdateTickerStep(w)

ReadTicker ==
    \E symbol \in ReadSymbols : ClientGetTicker(symbol, WriterExchange)

ReadMapping ==
    \/ ClientRead(GetAllTickers)
    \/ \E symbol \in ReadSymbols : ClientRead(GetTickerAll(symbol))

ReadArb ==
    \E symbol \in ReadSymbols, min_profit_percent \in ReadThresholds :
        GetArb(symbol, min_profit_percent)

NextReads ==
    \/ \E w \in Writers : WriterCall(w)
    \/ \E w \in Writers : WriterStepNotify(w)
    \/ ReadTicker
    \/ ReadMapping
    \/ ReadArb

SpecReads == InitKeys /\ [][NextReads]_vars

--------------------------------------------------------------------------
(* C24 *)

\* the callbacks invoked so far by the calls under way or last made
Invoked == [t \in Threads |-> last_call[t].invoked]

\* C24: get_arbitrage_opportunities, get_ticker and get_all_tickers, for any
\* symbol (also one never written), leave the repository unchanged: no key
\* is created, no snapshot and no lastUpdateTimestamp is modified and no
\* callback is invoked, also while update_ticker calls are under way.
C24_ReadsAreReadOnly ==
    [][(held' # held \/ result' # result \/ arb' # arb) =>
          /\ ticker_data' = ticker_data
          /\ RepoView' = RepoView
          /\ last_update' = last_update
          /\ Invoked' = Invoked
          /\ update_callbacks' = update_callbacks]_vars

\* get_arbitrage_opportunities was called with a symbol that was never
\* written and get_ticker has returned an entry, while a writer's
\* update_ticker call waits for the lock
C24_Witness ==
    /\ arb # None
    /\ Val(arb).ret.std = Some(BTC_USD)
    /\ BTC_USD \notin DOMAIN ticker_data
    /\ held # None
    /\ \E w \in Writers : pc[w] = "ut_acquire"

--------------------------------------------------------------------------
(* From the exchange to the detector: two adapters that quote the same
   symbol, their pumps, the clock and get_arbitrage_opportunities *)

E2EStartups == {{"HUOBI-spot", "OKX-spot"}}
E2ESet == UNION E2EStartups
E2ETimes == {Epoch, Epoch + StaleAfter + 1}
E2EMessages == {TickerMessage(Ticker(2, 2, 1))}
E2ESymbols == {Some(BTC_USDT)}
E2EThresholds == {Frac(1, 5)}

NextE2E ==
    \/ Tick(E2ETimes)
    \/ \E e \in E2ESet : AdapterThread(e) \/ Lose(e)
    \/ \E e \in E2ESet, msg \in E2EMessages : Recv(e, msg)
    \/ \E e \in E2ESet : PumpCycle(PumpOf(e))
    \/ \E symbol \in E2ESymbols, min_profit_percent \in E2EThresholds :
          GetArb(symbol, min_profit_percent)
    \/ ArbReturn

SpecE2E == InitSys(E2EStartups, <<>>) /\ [][NextE2E]_vars

--------------------------------------------------------------------------
(* C25 *)

\* at the time of the call, adapter e had received a market message within
\* the last 30 seconds
HeardLately(e, at) ==
    conn[e].heard # None /\ at - Val(conn[e].heard) <= StaleAfter

\* C25: an exchange whose adapter has received no new market message for
\* more than 30 seconds (for example while it is disconnected) is neither
\* the buy nor the sell side of an opportunity that
\* get_arbitrage_opportunities reports, although its pump passes the
\* adapter's last snapshot on in every cycle.
C25_EndToEndStaleness ==
    (arb # None /\ ~Val(arb).ret.raised) =>
        \A k \in DOMAIN Val(arb).ret.opportunities :
            LET opp == Val(arb).ret.opportunities[k]
            IN /\ HeardLately(opp.buy_exchange, Val(arb).at)
               /\ HeardLately(opp.sell_exchange, Val(arb).at)

--------------------------------------------------------------------------
(* C26 *)

\* the callbacks that the call recorded in c has invoked, in order
InvokedCallbacks(c) == [i \in DOMAIN c.invoked |-> c.invoked[i].callback]

\* C26: for every exchange pipeline, also those whose adapter updates its
\* snapshot in place (Bybit, OKX): when a pump's update_ticker call has
\* written a snapshot whose mark_price differs from the mark_price written
\* for that key by the previous write, and has returned, it has invoked
\* every callback that was registered at the time of the write once (a
\* callback appended to the list while the loop runs is called after them).
C26_ChangeNotification ==
    \A p \in Pumps :
        LET c == last_call[p]
        IN (c.returned /\ c.had_prev /\ c.mark # c.prev_mark) =>
              /\ Len(c.registered) <= Len(c.invoked)
              /\ SubSeq(InvokedCallbacks(c), 1, Len(c.registered)) = c.registered

--------------------------------------------------------------------------
(* C27 *)

\* C27: while the adapters handle messages and the pumps run, no entry of
\* the repository has mark_price, bid_price and ask_price all None or 0,
\* also after an adapter has handled a message with no usable price
\* following a valid one.
C27_NoUnpricedEntry ==
    \A d \in StoredSnapshots : ~Unpriced(d)

--------------------------------------------------------------------------
(* C28 *)

\* C28: every snapshot stored under standardized symbol s, for any
\* exchange, has its 'symbol' field equal to s, also while the adapter that
\* produced it keeps handling messages.
C28_SymbolMatchesKey ==
    \A s \in DOMAIN ticker_data :
        \A i \in DOMAIN ticker_data[s] :
            DGet(heap[ticker_data[s][i].obj], "symbol") = Some(s)

--------------------------------------------------------------------------
(* The arbitrage detector over snapshots with negative prices *)

\* (ask_price, bid_price) of the snapshots written: positive ones, negative
\* ones, and a positive ask with a negative bid
QuotesSigned == {Quote(Some(1), Some(2)), Quote(Some(-1), Some(-2)),
                 Quote(Some(2), Some(-1))}

NextSigned ==
    \/ ArbUpdate(QuotesSigned)
    \/ ArbTick(TimesCoarse)
    \/ ArbCall
    \/ ArbReturn

SpecSigned == InitArb /\ [][NextSigned]_vars

--------------------------------------------------------------------------
(* C29 *)

\* C29: every opportunity that get_arbitrage_opportunities returns has
\* buy_price > 0 and sell_price > 0 (profit_percent is never the result of
\* a division by a non-positive number), whatever update_ticker has stored,
\* snapshots with negative bid or ask included.
C29_PositiveTradePrices ==
    (arb # None /\ ~Val(arb).ret.raised) =>
        \A k \in DOMAIN Val(arb).ret.opportunities :
            LET opp == Val(arb).ret.opportunities[k]
            IN opp.buy_price > 0 /\ opp.sell_price > 0

--------------------------------------------------------------------------
(* One pipeline whose adapter builds a new snapshot per message, with two
   callbacks registered *)

NotifyStartups == {{"KRAKEN-spot"}}
NotifySet == UNION NotifyStartups
NotifyCallbacks == <<1, 2>>
NotifyTickers == {Ticker(1, 1, 2), Ticker(2, 2, 1)}
NotifyMarks == {ticker["mark_price"] : ticker \in NotifyTickers}

NextNotify ==
    \/ \E e \in NotifySet, ticker \in NotifyTickers : ReplacingMessage(e, ticker)
    \/ \E e \in NotifySet : PumpStep(PumpOf(e))

SpecNotify == InitSys(NotifyStartups, NotifyCallbacks) /\ [][NextNotify]_vars

\* the pump thread runs on; messages arrive or not
FairNotify ==
    \A e \in NotifySet : WF_vars(PumpStep(PumpOf(e))) /\ SF_vars(UtAcquire(PumpOf(e)))

SpecNotifyFair == SpecNotify /\ FairNotify

--------------------------------------------------------------------------
(* C30 *)

\* the callback that raised in the call recorded in c: the last one invoked
Raiser(c) == c.invoked[Len(c.invoked)].callback

\* the pump p is in, or has just left, an update_ticker call that wrote mark
\* price m and invoked callback cb
Notified(p, cb, m) ==
    /\ last_call[p].mark = m
    /\ \E i \in DOMAIN last_call[p].invoked : last_call[p].invoked[i].callback = cb

\* C30: if a registered callback raises during an update_ticker call that
\* changes mark_price, the repository lock is released, and every other
\* registered callback is notified of that mark price, in that call or in a
\* later cycle of the pump.
C30_CallbackFailure ==
    /\ [](\A p \in Pumps : last_call[p].raised => data_lock # Some(p))
    /\ \A p \in Pumps, m \in NotifyMarks, cb \in 1..MaxCallbacks :
          (/\ last_call[p].raised
           /\ last_call[p].mark = m
           /\ \E i \in DOMAIN last_call[p].registered : last_call[p].registered[i] = cb
           /\ cb # Raiser(last_call[p])) ~> Notified(p, cb, m)

--------------------------------------------------------------------------
(* C31 *)

\* the adapter of e has handled a market message: a ticker or, for Bybit,
\* an order book
DataHandled(e) == conn[e].heard # None

\* the adapter of e has handled a ticker message. Bybit's snapshot has a
\* mark_price that is not None only from handle_ticker_data (the pump's
\* completion sets the missing field to None, the order book handler sets
\* bid and ask only); the other adapters receive ticker messages only.
TickerHandled(e) ==
    IF e = "BYBIT-spot"
    THEN /\ ws_data[e] # None
         /\ DGet(heap[Val(ws_data[e])], "mark_price") # None
    ELSE DataHandled(e)

\* the pump of e has made no update_ticker call, and no key of e is in the
\* repository
NoWriteYet(e) ==
    /\ ~InUpdateCall(PumpOf(e))
    /\ \A s \in DOMAIN ticker_data : StoredFor(ticker_data, s, e) = None
    /\ \A s \in DOMAIN last_update : ~Stamped(last_update, s, e)

\* C31, as stated: for each exchange, its pump makes no update_ticker call
\* and its key is absent from the repository until its adapter has handled
\* at least one ticker message, for Bybit (whose first snapshot is an empty
\* dict) and Kraken (whose pump builds an all-None placeholder) as well.
C31_NoWriteBeforeTicker ==
    \A e \in Exchanges : ~TickerHandled(e) => NoWriteYet(e)

\* C31, amended: for each exchange, its pump makes no update_ticker call and
\* its key is absent from the repository until its adapter has handled at
\* least one market message (a ticker message or, for Bybit, an order book
\* message).
C31_NoWriteBeforeData ==
    \A e \in Exchanges : ~DataHandled(e) => NoWriteYet(e)

\* Kraken's adapter has handled nothing, and its pump has built the
\* placeholder and rejected it
C31_Witness ==
    /\ "KRAKEN-spot" \in started
    /\ ~DataHandled("KRAKEN-spot")
    /\ pc[PumpOf("KRAKEN-spot")] = "rejected"
    /\ frame[PumpOf("KRAKEN-spot")].data # None
    /\ heap[Val(frame[PumpOf("KRAKEN-spot")].data)] = KrakenPlaceholder
    /\ NoWriteYet("KRAKEN-spot")

====
